---- MODULE Spec2Model ----
(***************************************************************************)
(* Verification model of arbot: the arbitrage detection engine            *)
(* (arbot/strategy.py), the trading simulator (arbot/simulator.py) and    *)
(* the live trader (arbot/trader.py).                                     *)
(*                                                                         *)
(* Each component is a state machine of its own specification:            *)
(*   Spec        ArbitrageStrategy driven by the venues' stream tasks     *)
(*   SimSpec     TradingSimulator                                         *)
(*   LiveSpec    LiveTrader                                               *)
(*   InsertSpec  ArbitrageStrategy with a database whose inserts may fail  *)
(*   SizingSpec  _calculate_trade_size of both executors as functions     *)
(*   DetectSpec  _calculate_arbitrage and the profit filter as functions  *)
(*   StreamSpec  the websocket stream of one venue adapter                 *)
(*   BatchSpec   the batch buffer of ticker records                        *)
(*   BacktestSpec  Backtester.run_backtest over one quote history         *)
(*   UniverseSpec  ArBot.start: the symbol universe and the subscriptions  *)
(*   ConfigSpec  Config loaded from a file and the environment             *)
(*   ConversionSpec  the adapters' symbol conversions                     *)
(*   EmitSpec    ArbitrageStrategy behind BaseExchange._emit_ticker        *)
(*   SweepSpec   Backtester.run_parameter_optimization                     *)
(*   RateSpec    the KRW to USD rate of the Upbit adapter                  *)
(*   PremiumSpec the premium history of ArBot                              *)
(*   FlushSpec   the batch buffer with its bulk inserts in flight          *)
(* Coroutines are modelled with one action per stretch of code between    *)
(* two awaits that really suspend (database and network calls).           *)
(*                                                                         *)
(* Arithmetic is exact integer arithmetic: fractions (fees, thresholds,   *)
(* slippage) are in units of 1/Scale, and a profit is kept as the         *)
(* numerator profit * Scale together with the buy price it is divided by. *)
(***************************************************************************)
EXTENDS Integers, Sequences, FiniteSets, TLC

VARIABLES
    now,              \* time.time(), in seconds
    \* ---- ArbitrageStrategy (strategy.py)
    is_running,       \* ArbitrageStrategy.is_running
    exchange_data,    \* exchange_data[<<exchange, symbol>>] : ExchangeData (+ arrival)
    exchange_order,   \* insertion order of the keys of the exchange_data dict
    trade_cooldown,   \* trade_cooldown[<<symbol, buy, sell>>] : time of last signal
    recent_signals,   \* deque(maxlen=100) of the signals emitted
    task,             \* task[v]: the _on_ticker_update call of venue v's stream task
    emitted,          \* history: the signals handed to the signal callbacks, with the time
    last_pairing,     \* history: the quotes that entered the most recent pairing
    opportunity_inserts, \* history: the signals given to insert_arbitrage_opportunity
    insert_raised,    \* history: an insert_arbitrage_opportunity call raised
    \* ---- TradingSimulator (simulator.py)
    sim_is_running,       \* TradingSimulator.is_running
    sim_balances,         \* balances[exchange][asset] : [free, locked]
    sim_orders,           \* orders[order_id] : SimulatedOrder
    sim_active_trades,    \* active_trades[key] : SimulatedTrade
    sim_completed_trades, \* completed_trades
    sim_trade_counter,    \* trade_counter
    sim_stats,            \* total_trades, successful_trades, failed_trades, total_profit, ...
    sim_proc,             \* the _process_orders task: where it is suspended
    sim_aborted_orders,   \* history: orders created by calls that returned False
    \* ---- LiveTrader (trader.py)
    lt_is_running,        \* LiveTrader.is_running
    lt_trades,            \* the ActiveTrade objects still referenced, by their first id
    lt_active_trades,     \* the keys of the active_trades dict
    lt_trade_counter,     \* trade_counter
    lt_calls,             \* lt_calls[key]: where the execute_arbitrage call of a trade is
    lt_stats,             \* total_trades, successful_trades, failed_trades
    lt_mon,               \* the _monitor_trades task: where it is suspended
    lt_stop,              \* the stop() call: where it is suspended
    lt_cancel_requests,   \* history: the cancel_order requests sent to the venues
    lt_status_log,        \* history: the values trade.status took, and who assigned them
    lt_timed_out,         \* history: the legs of a trade when its timeout was handled
    lt_db_updates,        \* history: the status last passed to update_trade_status
    lt_entry_drawdown,    \* history: current_drawdown at the last call that placed orders
    \* ---- _calculate_trade_size of both executors, applied to one input
    sizing,               \* the signal, balances and configuration, and the two results
    \* ---- the detection of strategy.py:170-192 applied to one pair of fresh quotes
    detect,               \* the two ExchangeData entries, the configuration, the results
    \* ---- one venue adapter's websocket stream (arbot/exchanges/*.py)
    ws,                   \* connected, retry_count, the stream task's position, ...
    \* ---- the batch buffer of ticker records (test_gui_batch.py, MockGUI)
    gui,                  \* ticker_buffer, last_ticker_storage, last_batch_storage, ...
    \* ---- Backtester (backtester.py)
    bt,                   \* historical_data, the run_backtest call's position, results
    \* ---- ArBot.start (main.py): the symbol universe and the subscriptions
    universe,             \* exchanges, the venues' listings, dynamic_symbols, ...
    \* ---- Config.__init__ (config.py): the configuration being loaded
    cfgload,              \* the file, the environment, the exchanges loaded
    \* ---- the adapters' symbol conversions applied to one string
    conv,                 \* the venue, the string, and the three results
    \* ---- BaseExchange._emit_ticker (exchanges/base.py): the adapters' emit path
    emit,                 \* what the ticker callbacks did
    \* ---- Backtester.run_parameter_optimization (backtester.py)
    sweep,                \* the grid, the simulator's state, the results
    \* ---- UpbitExchange._get_krw_to_usd_rate (upbit.py)
    fx,                   \* the rate held, its time, the requests made
    \* ---- ArBot.update_spread_history / get_adjusted_spread (main.py)
    premium,              \* spread_history of one key, the last adjusted spread
    \* ---- the batch buffer with its calls in flight (test_gui_batch.py, database.py)
    batch                 \* ticker_buffer, the calls of the stream tasks, the rows written

strategyVars == <<is_running, exchange_data, exchange_order, trade_cooldown,
                  recent_signals, task, emitted, last_pairing, opportunity_inserts,
                  insert_raised>>

simVars == <<sim_is_running, sim_balances, sim_orders, sim_active_trades,
             sim_completed_trades, sim_trade_counter, sim_stats, sim_proc,
             sim_aborted_orders>>

liveVars == <<lt_is_running, lt_trades, lt_active_trades, lt_trade_counter, lt_calls,
              lt_stats, lt_mon, lt_stop, lt_cancel_requests, lt_status_log, lt_timed_out,
              lt_db_updates, lt_entry_drawdown>>

componentVars == <<ws, gui, bt, universe, cfgload, conv, emit, sweep, fx, premium, batch>>
functionVars == <<sizing, detect, componentVars>>

nonStrategyVars == <<simVars, liveVars, functionVars>>
nonSimVars == <<strategyVars, liveVars, functionVars>>
nonLiveVars == <<strategyVars, simVars, functionVars>>

vars == <<now, strategyVars, simVars, liveVars, functionVars>>

\* Everything but the components that have a specification of their own below.
coreVars == <<now, strategyVars, simVars, liveVars, sizing, detect>>
nonStreamVars == <<coreVars, gui, bt, universe, cfgload, conv, emit, sweep, fx, premium,
                   batch>>
nonBatchVars == <<coreVars, ws, bt, universe, cfgload, conv, emit, sweep, fx, premium, batch>>
nonBacktestVars == <<coreVars, ws, gui, universe, cfgload, conv, emit, sweep, fx, premium,
                     batch>>
nonUniverseVars == <<coreVars, ws, gui, bt, cfgload, conv, emit, sweep, fx, premium, batch>>
nonConfigVars == <<coreVars, ws, gui, bt, universe, conv, emit, sweep, fx, premium, batch>>
nonConversionVars == <<coreVars, ws, gui, bt, universe, cfgload, emit, sweep, fx, premium,
                       batch>>
nonEmitVars == <<coreVars, ws, gui, bt, universe, cfgload, conv, sweep, fx, premium, batch>>
nonSweepVars == <<coreVars, ws, gui, bt, universe, cfgload, conv, emit, fx, premium, batch>>
nonRateVars == <<coreVars, ws, gui, bt, universe, cfgload, conv, emit, sweep, premium, batch>>
nonPremiumVars == <<coreVars, ws, gui, bt, universe, cfgload, conv, emit, sweep, fx, batch>>
nonFlushVars == <<coreVars, ws, gui, bt, universe, cfgload, conv, emit, sweep, fx, premium>>

(***************************************************************************)
(* Bounds of the model                                                     *)
(***************************************************************************)
MaxTime == 60        \* the clock stops advancing here
MaxSignals == 2      \* no new ticker is taken once this many signals were emitted
SimMaxTime == 2      \* the clock of the simulator runs stops advancing here
MaxSimCalls == 2     \* execute_arbitrage calls of the simulator that pass the risk checks
LiveMaxTime == 301   \* the clock of the live trader runs stops advancing here
MaxLiveTrades == 2   \* execute_arbitrage calls of the live trader that create a trade

(***************************************************************************)
(* Configuration and program constants                                     *)
(***************************************************************************)
Scale == 10000                    \* fractions are in units of 1/Scale
min_profit_threshold == 10        \* ArbitrageConfig.min_profit_threshold = 0.001
max_spread_threshold == 20000     \* ArbitrageConfig.max_spread_threshold = 2.0
slippage_tolerance == 10          \* ArbitrageConfig.slippage_tolerance = 0.001
max_spread_age_seconds == 5       \* ArbitrageConfig.max_spread_age_seconds = 5.0
max_trades_per_hour == 2          \* ArbitrageConfig.max_trades_per_hour (configured)
default_taker_fee == 10           \* 0.001, the fallback fee of the strategy
cooldown_seconds == 60            \* "1 minute cooldown"
hour_seconds == 3600              \* window of the hourly cap
recent_signals_maxlen == 100      \* deque(maxlen=100)

\* config.exchanges holds "binance"; the other two venues are handed to
\* initialize() without an entry in config.exchanges.
ConfigExchanges == {"binance"}
Exchanges == {"binance", "okx", "upbit"}
Symbols == {"BTCUSDT", "XRPUSDT"}
active_symbols == {"BTCUSDT"}

\* The top-of-book quotes a venue may send.
Quotes == { [bid |-> 60000, ask |-> 60010],
            [bid |-> 60220, ask |-> 60230],
            [bid |-> 60400, ask |-> 60410],
            [bid |-> 200000, ask |-> 200010] }
\* Ticker.bid_size and Ticker.ask_size of these quotes.
QuoteSize == 500
confidence_size_unit == 1000      \* strategy.py:237 sizes are normalised to 1000 units
\* A venue stamps its quote with its own clock: equal to the local clock or ahead of it.
VenueClockSkews == {0, 30}
\* The clock advances in steps of these sizes.
TickSteps == {30}

\* ---- executors (trader.py, simulator.py)
MoneyScale == 10000               \* amounts of money are in units of 1/MoneyScale USDT
trade_amount_usd == 100           \* ArbitrageConfig.trade_amount_usd = 100.0
max_concurrent_trades == 1        \* RiskManagementConfig.max_concurrent_trades (configured)
initial_balance_usd == 10000      \* simulator: $10,000 per exchange
initial_balance_ada == 1000       \* simulator: 1000.0 / 1.0 ADA per exchange
sim_taker_fee == 10               \* simulator: exchange_fees[...]['taker'] = 0.001
fill_delay_seconds == 2           \* simulator: fill_delay_seconds = 2.0
partial_fill_tenths == 7          \* simulator: a partial fill is 0.7 of the quantity

\* config.get_enabled_exchanges() of the simulator runs
SimExchanges == {"binance", "bybit"}
SimAssets == {"USDT", "ADA"}
\* The signals handed to TradingSimulator.execute_arbitrage: ADAUSDT bought at 1.00 and
\* sold at 1.10; profit_percent is in units of 1/Scale.
SimSignals ==
    { sig \in [ symbol : {"ADAUSDT"}, buy_exchange : SimExchanges,
                sell_exchange : SimExchanges, buy_price : {10000}, sell_price : {11000},
                profit_percent : {5, 700}, buy_size : {50, 1000}, sell_size : {1000},
                profit : {969} ] :
        sig.buy_exchange # sig.sell_exchange }
SimTickSteps == {2}

max_position_size == 1000         \* ArbitrageConfig.max_position_size = 1000.0
trade_timeout_seconds == 300      \* trader.py: 5 minutes timeout
\* LiveTrader.balances of the runs: USDT on the buying venue, base asset on the selling one.
LiveQuoteBalance == 10000
LiveBaseBalance == 1000
max_drawdown_percent == 5         \* RiskManagementConfig.max_drawdown_percent = 5.0
\* LiveTrader.current_drawdown (percent) as _balance_monitor computed it last from the
\* venues' balances: none, at the limit, beyond it.
Drawdowns == {0, 5, 6}

OrderStatuses == {"new", "partially_filled", "filled", "canceled", "rejected"}
TerminalTradeStatuses == {"completed", "failed", "cancelled"}
\* The status Order objects returned by place_order carry.
PlacedStatuses == {"new", "filled"}
\* The statuses get_order_status can report for an order last seen with status s.
OrderStatusAfter(s) ==
    IF s = "new" THEN OrderStatuses
    ELSE IF s = "partially_filled" THEN {"partially_filled", "filled", "canceled"}
    ELSE {s}
\* The signals handed to LiveTrader.execute_arbitrage, and their age at the call.
LiveSignals ==
    { [ buy_price |-> 10000, sell_price |-> 11000, profit_percent |-> pp,
        buy_size |-> size, sell_size |-> 1000 ] : pp \in {5, 700}, size \in {0, 1000} }
SignalAges == {0, 10}
LiveTickSteps == {301}

Min(a, b) == IF a <= b THEN a ELSE b
Max(a, b) == IF a >= b THEN a ELSE b

Range(s) == { s[i] : i \in DOMAIN s }

(***************************************************************************)
(* ArbitrageStrategy: pure parts                                           *)
(***************************************************************************)

\* strategy.py:260  cooldown_key = f"{symbol}_{buy_exchange}_{sell_exchange}"
CooldownKey(signal) == <<signal.symbol, signal.buy_exchange, signal.sell_exchange>>

\* strategy.py:89-104 as called from _calculate_arbitrage (209-217): a venue without
\* an entry in config.exchanges gets the default fees; for a venue with an entry the
\* read of exchange_config.taker_fee raises (ExchangeConfig has no such field), the
\* except branch of _calculate_arbitrage catches it and uses 0.001 as well.
get_trading_fees(exchange_name) == default_taker_fee

\* strategy.py:236-240: the confidence (in 1/Scale) from the sizes and from the age
\* of the newer of the two quotes.
SignalConfidence(buy_size, sell_size, buy_updated, sell_updated, t) ==
    LET size_confidence == Min((Min(buy_size, sell_size) * Scale) \div confidence_size_unit,
                               Scale)
        age_confidence == Max(0, Scale - ((t - Max(buy_updated, sell_updated)) * Scale)
                                             \div max_spread_age_seconds)
    IN  (size_confidence + age_confidence) \div 2

\* The signal of strategy.py:242-254.
ArbitrageSignal(buy, sell, symbol, t, adjusted_profit) ==
    [ symbol        |-> symbol,
      buy_exchange  |-> buy.exchange_name,
      sell_exchange |-> sell.exchange_name,
      buy_price     |-> buy.ask,
      sell_price    |-> sell.bid,
      profit        |-> adjusted_profit,
      buy_size      |-> buy.ask_size,
      sell_size     |-> sell.bid_size,
      timestamp     |-> t,
      confidence    |-> SignalConfidence(buy.ask_size, sell.bid_size, buy.last_updated,
                                         sell.last_updated, t) ]

\* _calculate_arbitrage_at with the fees left out of the profit.
_calculate_arbitrage_NoFees(buy, sell, symbol, t, slippage) ==
    LET adjusted_profit == (sell.bid - buy.ask) * Scale - buy.ask * slippage
    IN  IF buy.ask <= 0 \/ adjusted_profit <= 0 THEN <<>>
        ELSE << ArbitrageSignal(buy, sell, symbol, t, adjusted_profit) >>

\* strategy.py:196-254 for a configured slippage_tolerance. buy and sell are
\* ExchangeData entries, t the clock.
\* The result is <<>> (None) or a one-element sequence holding the signal.
\* profit is adjusted_profit * Scale; profit_percent is profit / (buy_price * Scale).
_calculate_arbitrage_at(buy, sell, symbol, t, slippage) ==
    LET buy_price == buy.ask
        sell_price == sell.bid
        buy_fee == get_trading_fees(buy.exchange_name)
        sell_fee == get_trading_fees(sell.exchange_name)
        gross_profit == (sell_price - buy_price) * Scale
        fee_cost == buy_price * buy_fee + sell_price * sell_fee
        net_profit == gross_profit - fee_cost
        slippage_cost == buy_price * slippage
        adjusted_profit == net_profit - slippage_cost
    IN  IF buy_price <= 0 \/ adjusted_profit <= 0
        THEN <<>>
        ELSE << ArbitrageSignal(buy, sell, symbol, t, adjusted_profit) >>

\* strategy.py:196-254 under the configuration of the runs.
_calculate_arbitrage(buy, sell, symbol, t) ==
    _calculate_arbitrage_at(buy, sell, symbol, t, slippage_tolerance)

\* profit_percent >= threshold and profit_percent <= threshold, thresholds in 1/Scale.
\* profit_percent = profit / buy_price (in 1/Scale) is positive for every signal.
ProfitPercentGE(signal, threshold) == signal.profit \div signal.buy_price >= threshold
ProfitPercentLE(signal, threshold) ==
    (signal.profit + signal.buy_price - 1) \div signal.buy_price <= threshold

\* strategy.py:154-159: the entries for the symbol that count as fresh, in the
\* iteration order of the exchange_data dict.
FreshExchanges(data, order, symbol, t) ==
    LET IsFresh(ex) == /\ <<ex, symbol>> \in DOMAIN data
                       /\ t - data[<<ex, symbol>>].last_updated <= max_spread_age_seconds
    IN  SelectSeq(order, IsFresh)

\* strategy.py:170-182: the double loop over the pairs i < j, both directions.
RECURSIVE PairOpportunities(_, _, _, _, _, _)
PairOpportunities(data, fresh, i, j, symbol, t) ==
    IF i > Len(fresh) THEN <<>>
    ELSE IF j > Len(fresh) THEN PairOpportunities(data, fresh, i + 1, i + 2, symbol, t)
    ELSE LET exchange1 == data[<<fresh[i], symbol>>]
             exchange2 == data[<<fresh[j], symbol>>]
         IN  _calculate_arbitrage(exchange1, exchange2, symbol, t)
             \o _calculate_arbitrage(exchange2, exchange1, symbol, t)
             \o PairOpportunities(data, fresh, i, j + 1, symbol, t)

\* strategy.py:145-182: the list `opportunities` of _check_arbitrage_opportunities.
FindOpportunities(running, data, order, symbol, t) ==
    LET fresh == FreshExchanges(data, order, symbol, t)
    IN  IF ~running \/ Len(fresh) < 2 THEN <<>>
        ELSE PairOpportunities(data, fresh, 1, 2, symbol, t)

\* InProfitRange without the upper bound (the abnormal-spread filter left out).
InProfitRange_NoUpperBound(signal) ==
    ProfitPercentGE(signal, min_profit_threshold)

\* strategy.py:190-191: the profit range an opportunity must be in to be handled.
InProfitRange(signal) ==
    /\ ProfitPercentGE(signal, min_profit_threshold)
    /\ ProfitPercentLE(signal, max_spread_threshold)

\* strategy.py:260-263
InCooldown(cooldown, signal, t) ==
    /\ CooldownKey(signal) \in DOMAIN cooldown
    /\ t - cooldown[CooldownKey(signal)] < cooldown_seconds

\* strategy.py:266-269
HourlyCapReached(recent, t) ==
    Cardinality({ i \in 1..Len(recent) : t - recent[i].timestamp < hour_seconds })
        >= max_trades_per_hour

\* strategy.py:188-192 with 259-269: an opportunity is dropped without effect unless it
\* is in the profit range, out of cooldown and under the hourly cap; the first one that
\* is not dropped reaches the await of insert_arbitrage_opportunity. 0 if none does.
\* The loop without the cooldown check of strategy.py:260-263.
RECURSIVE FirstHandled_NoCooldown(_, _, _, _, _)
FirstHandled_NoCooldown(opps, i, cooldown, recent, t) ==
    IF i > Len(opps) THEN 0
    ELSE IF InProfitRange(opps[i]) /\ ~HourlyCapReached(recent, t)
         THEN i
         ELSE FirstHandled_NoCooldown(opps, i + 1, cooldown, recent, t)

RECURSIVE FirstHandled(_, _, _, _, _)
FirstHandled(opps, i, cooldown, recent, t) ==
    IF i > Len(opps) THEN 0
    ELSE IF /\ InProfitRange(opps[i])
            /\ ~InCooldown(cooldown, opps[i], t)
            /\ ~HourlyCapReached(recent, t)
         THEN i
         ELSE FirstHandled(opps, i + 1, cooldown, recent, t)

\* collections.deque(maxlen=100).append
DequeAppend(q, x) ==
    IF Len(q) >= recent_signals_maxlen THEN Append(Tail(q), x) ELSE Append(q, x)

IdleTask == [pc |-> "idle", symbol |-> "", cur |-> <<>>, rest |-> <<>>]

\* The task after the loop of strategy.py:188-194 ran over opps up to its next await.
TaskAfter(opps, cooldown, recent, t) ==
    LET i == FirstHandled(opps, 1, cooldown, recent, t)
    IN  IF i = 0 THEN IdleTask
        ELSE [pc |-> "insert_opportunity", symbol |-> opps[i].symbol,
              cur |-> <<opps[i]>>, rest |-> SubSeq(opps, i + 1, Len(opps))]

(***************************************************************************)
(* Detection applied to one pair of fresh quotes                           *)
(***************************************************************************)

\* The inputs: the quotes of the two venues, the configuration's slippage_tolerance,
\* min_profit_threshold and max_spread_threshold, and the taker_fee that the
\* configuration file gives for the venues that have an entry in it.
DetectQuotes == { [bid |-> 60000, ask |-> 60010],
                 [bid |-> 60100, ask |-> 60110],
                 [bid |-> 60400, ask |-> 60410],
                 [bid |-> 0, ask |-> 0] }
DetectSlippages == {5, 10}
DetectMinProfits == {1, 5}
DetectMaxSpreads == {200, 20000}
ConfigFileTakerFees == {5, 10}

ExchangeDataOf(v, q) ==
    [ exchange_name |-> v, bid |-> q.bid, ask |-> q.ask, bid_size |-> QuoteSize,
      ask_size |-> QuoteSize, last_updated |-> 0, arrival |-> 0 ]

DetectInputs ==
    { [ buy |-> ExchangeDataOf(pair[1], quotes[1]),
        sell |-> ExchangeDataOf(pair[2], quotes[2]),
        slippage_tolerance |-> cfg[1], min_profit_threshold |-> cfg[2],
        max_spread_threshold |-> cfg[3], config_taker_fee |-> cfg[4],
        done |-> FALSE, opportunities |-> <<>>, handled |-> <<>> ] :
        pair \in {p \in Exchanges \X Exchanges : p[1] # p[2]},
        quotes \in DetectQuotes \X DetectQuotes,
        cfg \in DetectSlippages \X DetectMinProfits \X DetectMaxSpreads
                   \X ConfigFileTakerFees }

\* No input is given in the runs of the strategy itself.
NoDetect ==
    [ buy |-> ExchangeDataOf("okx", [bid |-> 0, ask |-> 0]),
      sell |-> ExchangeDataOf("upbit", [bid |-> 0, ask |-> 0]),
      slippage_tolerance |-> slippage_tolerance,
      min_profit_threshold |-> min_profit_threshold,
      max_spread_threshold |-> max_spread_threshold,
      config_taker_fee |-> default_taker_fee,
      done |-> TRUE, opportunities |-> <<>>, handled |-> <<>> ]

\* strategy.py:170-192 for the pair (buy, sell): both directions are calculated, and
\* the opportunities inside the profit range are handled.
DetectPair ==
    /\ ~detect.done
    /\ LET opp1 == _calculate_arbitrage_at(detect.buy, detect.sell, "BTCUSDT", 0,
                                           detect.slippage_tolerance)
           opp2 == _calculate_arbitrage_at(detect.sell, detect.buy, "BTCUSDT", 0,
                                           detect.slippage_tolerance)
           InRange(signal) == /\ ProfitPercentGE(signal, detect.min_profit_threshold)
                              /\ ProfitPercentLE(signal, detect.max_spread_threshold)
       IN  detect' = [detect EXCEPT !.done = TRUE,
                                    !.opportunities = opp1 \o opp2,
                                    !.handled = SelectSeq(opp1 \o opp2, InRange)]
    /\ UNCHANGED <<now, strategyVars, simVars, liveVars, sizing, componentVars>>

(***************************************************************************)
(* Venue adapters: the websocket stream of one adapter                     *)
(***************************************************************************)

Adapters == {"binance", "bybit", "bitget", "okx", "upbit"}
\* The adapters whose _handle_ws_messages has the reconnect loop (bybit.py:200-330).
\* BinanceExchange._handle_ws_messages_with_reconnect (binance.py:179-273) has one
\* too, but connect_ws starts _handle_ws_messages (binance.py:144).
ReconnectingAdapters == {"bybit"}
max_retries == 5          \* bybit.py:202
base_delay == 5           \* bybit.py:204
max_delay == 120          \* bybit.py:205
rate_limit_delay == 30    \* bybit.py:304
WsSymbolLists == { <<"BTCUSDT">>, <<"BTCUSDT", "ETHUSDT">> }
\* How a stream ends: the iteration over the connection ends (a close with code 1000
\* or 1001), ConnectionClosed with code 1011 or a keepalive ping timeout, or any
\* other exception.
WsClosures == {"clean", "rate_limit", "error"}
\* How a reconnect ends: connected and subscribed, websockets.connect raises, or a
\* send of a subscription raises ConnectionClosed with code 1011.
WsConnectOutcomes == {"ok", "refused", "rate_limit"}
MaxPublished == 3         \* no ticker is read once this many were published

\* The adapter after construction (base.py:71), for each venue.
WsNew(v) ==
    [ venue |-> v, connected |-> FALSE, pc |-> "new", symbols |-> <<>>,
      retry_count |-> 0, subscribed |-> {}, published |-> 0,
      waited |-> 0,             \* history: seconds slept since the last failure
      unattended |-> FALSE,     \* history: the stream closed and no attempt followed yet
      resumed |-> FALSE ]       \* history: a websockets.connect of the loop succeeded
\* No adapter is driven in the runs of the other components.
NoStream == [WsNew("bybit") EXCEPT !.pc = "disconnected"]

\* bybit.py:320: 2 ** (retry_count - 1)
RECURSIVE Pow2(_)
Pow2(n) == IF n <= 0 THEN 1 ELSE 2 * Pow2(n - 1)

\* bybit.py:324
BackoffDelay(retry_count) == Min(base_delay * Pow2(retry_count - 1), max_delay)

\* bybit.py:313-330: the reconnection logic after the except clauses. connected is
\* True here (only disconnect_ws clears it, and it cancels the task).
WsAfterFailure(w) ==
    LET rc == w.retry_count + 1
    IN  IF rc > max_retries
        THEN [w EXCEPT !.retry_count = rc, !.connected = FALSE, !.pc = "ended"]
        ELSE [w EXCEPT !.retry_count = rc, !.pc = "backoff"]

\* connect_ws (binance.py:97-155, bybit.py:137-170, bitget.py:93-127,
\* upbit.py:99-132, okx.py:128-144): connect, subscribe, start _handle_ws_messages;
\* any exception leaves connected False and no task.
ConnectWs(symbols, ok) ==
    /\ ws.pc = "new"
    /\ ws' = IF ok
             THEN [ws EXCEPT !.symbols = symbols, !.connected = TRUE,
                             !.subscribed = Range(symbols), !.pc = "listening"]
             ELSE [ws EXCEPT !.symbols = symbols, !.pc = "ended"]
    /\ UNCHANGED nonStreamVars

\* _handle_ws_messages reads a ticker message and publishes it (_handle_ticker_data).
WsTicker ==
    /\ ws.pc = "listening"
    /\ ws.published < MaxPublished
    /\ ws' = [ws EXCEPT !.published = @ + 1]
    /\ UNCHANGED nonStreamVars

\* The stream closes while _handle_ws_messages iterates over it. With the loop
\* (bybit.py:296-330) the except clauses lead to the reconnection logic, after
\* asyncio.sleep(30) for a rate-limit closure; without it (binance.py:275-367,
\* bitget.py:227-287, upbit.py:184-221, okx.py:184-219) the task ends, with
\* connected set to False when the iteration raised.
WsCloses(how) ==
    /\ ws.pc = "listening"
    /\ LET closed == [ws EXCEPT !.subscribed = {}, !.waited = 0, !.unattended = TRUE]
       IN  ws' = IF ws.venue \in ReconnectingAdapters
                 THEN IF how = "rate_limit"
                      THEN [closed EXCEPT !.pc = "rate_limit_sleep"]
                      ELSE WsAfterFailure(closed)
                 ELSE [closed EXCEPT !.pc = "ended",
                                     !.connected = IF how = "clean" THEN @ ELSE FALSE]
    /\ UNCHANGED nonStreamVars

\* An asyncio.sleep of the loop returns: the one of bybit.py:304, after which the
\* reconnection logic runs, or the backoff of bybit.py:326, after which the loop
\* begins the next websockets.connect (bybit.py:212).
WsSleepReturns ==
    /\ ws.pc \in {"rate_limit_sleep", "backoff"}
    /\ ws' = IF ws.pc = "rate_limit_sleep"
             THEN WsAfterFailure([ws EXCEPT !.waited = @ + rate_limit_delay])
             ELSE [ws EXCEPT !.waited = @ + BackoffDelay(ws.retry_count),
                             !.pc = "connecting", !.unattended = FALSE]
    /\ UNCHANGED nonStreamVars

\* bybit.py:212-229 and 296-330: the websockets.connect of a reconnection and the
\* subscriptions that follow it return or raise.
WsConnectReturns(outcome) ==
    /\ ws.pc = "connecting"
    /\ ws' = IF outcome = "ok"
             THEN [ws EXCEPT !.retry_count = 0, !.connected = TRUE,
                             !.subscribed = Range(ws.symbols), !.waited = 0,
                             !.pc = "listening", !.resumed = TRUE]
             ELSE IF outcome = "rate_limit"
             THEN [ws EXCEPT !.waited = 0, !.pc = "rate_limit_sleep"]
             ELSE WsAfterFailure([ws EXCEPT !.waited = 0])
    /\ UNCHANGED nonStreamVars

\* disconnect_ws (bybit.py:186-198 and the like): the task is cancelled, the
\* connection closed, connected cleared.
DisconnectWs ==
    /\ ws.pc \notin {"new", "disconnected"}
    /\ ws' = [ws EXCEPT !.connected = FALSE, !.subscribed = {}, !.unattended = FALSE,
                        !.pc = "disconnected"]
    /\ UNCHANGED nonStreamVars

(***************************************************************************)
(* The batch buffer of ticker records                                      *)
(***************************************************************************)

\* config.database, as test_gui_batch.py:39, 59 and 60 read it.
ticker_storage_interval_seconds == 1
ticker_batch_size == 2
ticker_batch_interval_seconds == 2
GuiExchanges == {"exchange_0", "exchange_1"}
GuiSymbols == {"TEST0USDT", "TEST1USDT"}
GuiMaxTime == 4        \* the clock stops here
MaxGuiRecords == 4     \* no ticker arrives once this many records were buffered

\* test_gui_batch.py:20-27, with time.time() = 0 at construction. A buffered record
\* carries the time it was buffered at and a serial number.
GuiNew ==
    [ time |-> 0, ticker_buffer |-> <<>>, last_ticker_storage |-> <<>>,
      last_batch_storage |-> 0, records |-> 0,
      inserted |-> {},          \* history: the records a bulk insert stored
      failed |-> {},            \* history: the records given to a bulk insert that raised
      bulk_inserts |-> 0 ]      \* history: the calls of insert_tickers_batch
\* No ticker is stored in the runs of the other components.
NoGui == [GuiNew EXCEPT !.records = MaxGuiRecords, !.time = GuiMaxTime]

\* test_gui_batch.py:67-86: _flush_ticker_batch. When insert_tickers_batch raises,
\* the except clause logs, and the buffer and last_batch_storage stay as they are.
Flush_ticker_batch(g, raises) ==
    IF g.ticker_buffer = <<>> THEN g
    ELSE IF raises
    THEN [g EXCEPT !.failed = @ \cup Range(g.ticker_buffer), !.bulk_inserts = @ + 1]
    ELSE [g EXCEPT !.inserted = @ \cup Range(g.ticker_buffer), !.bulk_inserts = @ + 1,
                   !.ticker_buffer = <<>>, !.last_batch_storage = g.time]

\* test_gui_batch.py:29-65: _add_to_ticker_batch for a ticker of the symbol from the
\* exchange; raises tells whether the bulk insert of a flush raises.
AddToTickerBatch(exchange_name, symbol, raises) ==
    /\ gui.records < MaxGuiRecords
    /\ LET storage_key == <<exchange_name, symbol>>
           current_time == gui.time
           gate == \/ storage_key \notin DOMAIN gui.last_ticker_storage
                   \/ current_time - gui.last_ticker_storage[storage_key]
                         >= ticker_storage_interval_seconds
           added == [gui EXCEPT
                       !.ticker_buffer = Append(@, [key |-> storage_key,
                                                    id |-> gui.records + 1,
                                                    at |-> current_time]),
                       !.last_ticker_storage = (storage_key :> current_time) @@ @,
                       !.records = @ + 1]
       IN  gui' = IF ~gate THEN gui
                  ELSE IF \/ Len(added.ticker_buffer) >= ticker_batch_size
                          \/ current_time - gui.last_batch_storage
                                >= ticker_batch_interval_seconds
                  THEN Flush_ticker_batch(added, raises)
                  ELSE added
    /\ UNCHANGED nonBatchVars

\* time.time() advances while no ticker arrives.
GuiTick ==
    /\ gui.time < GuiMaxTime
    /\ gui' = [gui EXCEPT !.time = @ + 1]
    /\ UNCHANGED nonBatchVars

(***************************************************************************)
(* ArbitrageStrategy: the state machine                                    *)
(***************************************************************************)

StrategyInit ==
    /\ is_running = FALSE
    /\ exchange_data = <<>>
    /\ exchange_order = <<>>
    /\ trade_cooldown = <<>>
    /\ recent_signals = <<>>
    /\ task = [v \in Exchanges |-> IdleTask]
    /\ emitted = <<>>
    /\ last_pairing = [at |-> 0, arrivals |-> {}]
    /\ opportunity_inserts = <<>>
    /\ insert_raised = FALSE

\* strategy.py:307-313
Start ==
    /\ ~is_running
    /\ is_running' = TRUE
    /\ UNCHANGED <<now, exchange_data, exchange_order, trade_cooldown, recent_signals,
                   task, emitted, last_pairing, opportunity_inserts, insert_raised,
                   nonStrategyVars>>

\* strategy.py:315-318
Stop ==
    /\ is_running
    /\ is_running' = FALSE
    /\ UNCHANGED <<now, exchange_data, exchange_order, trade_cooldown, recent_signals,
                   task, emitted, last_pairing, opportunity_inserts, insert_raised,
                   nonStrategyVars>>

\* strategy.py:112-116: exchange_config.maker_fee of an exchange that has an entry in
\* config.exchanges raises AttributeError (ExchangeConfig, config.py:20-29, has no
\* such field).
OnTickerUpdateRaises(v, symbol) == symbol \in active_symbols /\ v \in ConfigExchanges

\* The emit path after construction (base.py:67-73), with the history of its calls.
MaxEmitCalls == 2
EmitNew == [ calls |-> 0,               \* history: the tickers emitted, up to MaxEmitCalls
            callback_raised |-> FALSE,  \* history: a callback raised
            not_stored |-> FALSE ]      \* history: a call left the quote table as it was
NoEmit == [EmitNew EXCEPT !.calls = MaxEmitCalls]

\* strategy.py:106-138: venue v's stream task calls _on_ticker_update with a ticker
\* of the symbol, quote q, stamped by the venue with now + skew. The call runs up to
\* the await of database.insert_ticker.
OnTickerUpdateCall(v, symbol, q, skew) ==
    /\ task[v].pc = "idle"
    /\ Len(emitted) < MaxSignals
    /\ IF symbol \notin active_symbols
       THEN \* line 108: return
            UNCHANGED <<exchange_data, exchange_order, task>>
       ELSE IF OnTickerUpdateRaises(v, symbol)
       THEN \* line 114: exchange_config.maker_fee raises AttributeError, which
            \* BaseExchange._emit_ticker catches; nothing was stored
            UNCHANGED <<exchange_data, exchange_order, task>>
       ELSE /\ exchange_data' =
                    (<<v, symbol>> :> [ exchange_name |-> v,
                                        bid |-> q.bid,
                                        ask |-> q.ask,
                                        bid_size |-> QuoteSize,
                                        ask_size |-> QuoteSize,
                                        last_updated |-> now + skew,
                                        arrival |-> now ]) @@ exchange_data
            /\ exchange_order' = IF v \in Range(exchange_order) THEN exchange_order
                                 ELSE Append(exchange_order, v)
            /\ task' = [task EXCEPT ![v] = [pc |-> "insert_ticker", symbol |-> symbol,
                                            cur |-> <<>>, rest |-> <<>>]]
    /\ UNCHANGED <<now, is_running, trade_cooldown, recent_signals, emitted, last_pairing,
                   opportunity_inserts, insert_raised>>

OnTickerUpdate(v, symbol, q, skew) ==
    /\ OnTickerUpdateCall(v, symbol, q, skew)
    /\ UNCHANGED nonStrategyVars

\* base.py:149-156 with the callback of strategy.py:80-85: the adapter of venue v
\* emits a ticker; an exception of the callback is caught and printed.
EmitTicker(v, symbol, q) ==
    /\ OnTickerUpdateCall(v, symbol, q, 0)
    /\ LET stored == /\ <<v, symbol>> \in DOMAIN exchange_data'
                     /\ exchange_data'[<<v, symbol>>].bid = q.bid
                     /\ exchange_data'[<<v, symbol>>].ask = q.ask
                     /\ exchange_data'[<<v, symbol>>].arrival = now
       IN  emit' = [emit EXCEPT
                      !.calls = Min(@ + 1, MaxEmitCalls),
                      !.callback_raised = @ \/ OnTickerUpdateRaises(v, symbol),
                      !.not_stored = @ \/ (symbol \in active_symbols /\ ~stored)]
    /\ UNCHANGED <<simVars, liveVars, sizing, detect, ws, gui, bt, universe, cfgload, conv,
                   sweep, fx, premium, batch>>

\* strategy.py:272-284: the insert a task begins when it reaches the await of
\* insert_arbitrage_opportunity.
InsertsAfter(inserts, after) ==
    IF after.pc = "insert_opportunity" THEN Append(inserts, after.cur[1]) ELSE inserts

\* strategy.py:137-194 and 256-284: insert_ticker returned (or raised, which is
\* logged); _check_arbitrage_opportunities runs up to the await of
\* insert_arbitrage_opportunity for the first opportunity that is not dropped.
InsertTickerReturns(v) ==
    /\ task[v].pc = "insert_ticker"
    /\ LET symbol == task[v].symbol
           fresh == FreshExchanges(exchange_data, exchange_order, symbol, now)
           opps == FindOpportunities(is_running, exchange_data, exchange_order, symbol, now)
           after == TaskAfter(opps, trade_cooldown, recent_signals, now)
       IN  /\ task' = [task EXCEPT ![v] = after]
           /\ opportunity_inserts' = InsertsAfter(opportunity_inserts, after)
           /\ last_pairing' =
                IF is_running /\ Len(fresh) >= 2
                THEN [at |-> now,
                      arrivals |-> { exchange_data[<<fresh[i], symbol>>].arrival :
                                        i \in 1..Len(fresh) }]
                ELSE last_pairing
    /\ UNCHANGED <<now, is_running, exchange_data, exchange_order, trade_cooldown,
                   recent_signals, emitted, insert_raised, nonStrategyVars>>

\* strategy.py:283-305, then the rest of the loop of 188-194: the insert returned (or
\* raised, which is logged); the signal is appended, the cooldown is set, the signal
\* is handed to the callbacks, and the loop goes on to its next await.
InsertOpportunityReturns(v, raises) ==
    /\ task[v].pc = "insert_opportunity"
    /\ LET signal == task[v].cur[1]
           recent == DequeAppend(recent_signals, signal)
           cooldown == (CooldownKey(signal) :> now) @@ trade_cooldown
           after == TaskAfter(task[v].rest, cooldown, recent, now)
       IN  /\ insert_raised' = (insert_raised \/ raises)
           /\ recent_signals' = recent
           /\ trade_cooldown' = cooldown
           /\ emitted' = Append(emitted, [signal |-> signal, at |-> now])
           /\ task' = [task EXCEPT ![v] = after]
           /\ opportunity_inserts' = InsertsAfter(opportunity_inserts, after)
    /\ UNCHANGED <<now, is_running, exchange_data, exchange_order, last_pairing,
                   nonStrategyVars>>

(***************************************************************************)
(* TradingSimulator: pure parts                                            *)
(***************************************************************************)

\* simulator.py:241/253: 'USDT' if 'USDT' in symbol else 'USDC', and the symbol with
\* 'USDT' and 'USDC' removed.
QuoteAsset(symbol) == "USDT"
BaseAsset(symbol) == "ADA"

\* The keys of a dict of integer keys in insertion (ascending) order.
RECURSIVE SortedSeq(_)
SortedSeq(S) ==
    IF S = {} THEN <<>>
    ELSE LET m == CHOOSE x \in S : \A y \in S : x <= y
         IN  <<m>> \o SortedSeq(S \ {m})

Min5(a, b, c, d, e) == Min(a, Min(b, Min(c, Min(d, e))))

\* simulator.py:479-499 for a configured trade amount (USD) and the free balances
\* buy_balance (quote asset, in 1/MoneyScale) and sell_balance (base asset).
Sim_trade_size(signal, buy_balance, sell_balance, amount_usd) ==
    LET trade_size == (amount_usd * MoneyScale) \div signal.buy_price
        max_buy_size == buy_balance \div signal.buy_price
    IN  Min5(trade_size, max_buy_size, sell_balance, signal.buy_size, signal.sell_size)

\* simulator.py:479-499
Sim_calculate_trade_size(balances, signal) ==
    Sim_trade_size(signal, balances[signal.buy_exchange][QuoteAsset(signal.symbol)].free,
                   balances[signal.sell_exchange][BaseAsset(signal.symbol)].free,
                   trade_amount_usd)

\* simulator.py:501-509
Sim_can_execute_trade(balances, signal) ==
    /\ ~(signal.profit_percent < min_profit_threshold)
    /\ Sim_calculate_trade_size(balances, signal) > 0

\* simulator.py:210-234: the order a placement that is not rejected creates.
SimulatedOrder(order_id, exchange, symbol, side, quantity, price, t) ==
    [ order_id |-> order_id, exchange |-> exchange, symbol |-> symbol, side |-> side,
      quantity |-> quantity, price |-> price, status |-> "new",
      filled_quantity |-> 0, average_price |-> 0, timestamp |-> t ]

\* simulator.py:236-267: [ok, balances] after _reserve_balances; a reservation made
\* for the buy order stays when the one for the sell order fails.
Sim_reserve_balances(balances, signal, quantity) ==
    LET quote_asset == QuoteAsset(signal.symbol)
        base_asset == BaseAsset(signal.symbol)
        required_quote == quantity * signal.buy_price
        buy_balance == balances[signal.buy_exchange][quote_asset]
        after_buy == [balances EXCEPT ![signal.buy_exchange][quote_asset] =
                         [free |-> buy_balance.free - required_quote,
                          locked |-> buy_balance.locked + required_quote]]
        sell_balance == after_buy[signal.sell_exchange][base_asset]
        after_sell == [after_buy EXCEPT ![signal.sell_exchange][base_asset] =
                         [free |-> sell_balance.free - quantity,
                          locked |-> sell_balance.locked + quantity]]
    IN  IF buy_balance.free < required_quote THEN [ok |-> FALSE, balances |-> balances]
        ELSE IF sell_balance.free < quantity THEN [ok |-> FALSE, balances |-> after_buy]
        ELSE [ok |-> TRUE, balances |-> after_sell]

\* simulator.py:299
OrderDue(order, t) ==
    order.status = "new" /\ ~(t - order.timestamp < fill_delay_seconds)

\* simulator.py:276-278: the first order of the snapshot, from position i on, that is
\* NEW and due; the others are passed over without an await. 0 if there is none.
RECURSIVE FirstDue(_, _, _, _)
FirstDue(orders, todo, i, t) ==
    IF i > Len(todo) THEN 0
    ELSE IF OrderDue(orders[todo[i]], t) THEN i
    ELSE FirstDue(orders, todo, i + 1, t)

\* simulator.py:322-338: the order after _fill_order decided price and quantity.
Sim_fill_order(order, partial) ==
    LET fill_price == IF order.side = "buy"
                      THEN (order.price * (Scale + slippage_tolerance)) \div Scale
                      ELSE (order.price * (Scale - slippage_tolerance)) \div Scale
        fill_quantity == IF partial THEN (order.quantity * partial_fill_tenths) \div 10
                         ELSE order.quantity
    IN  [order EXCEPT !.status = IF partial THEN "partially_filled" ELSE "filled",
                      !.filled_quantity = fill_quantity,
                      !.average_price = fill_price]

\* simulator.py:362-363 / 383-384: the fee of a filled order (rounded down to the unit).
SimFee(amount) == (amount * sim_taker_fee) \div Scale

\* simulator.py:352-397
Sim_update_balances_after_fill(balances, order) ==
    LET quote_asset == QuoteAsset(order.symbol)
        base_asset == BaseAsset(order.symbol)
        amount == order.filled_quantity * order.average_price
        fee == SimFee(amount)
        b == balances[order.exchange]
    IN  IF order.side = "buy"
        THEN [balances EXCEPT ![order.exchange] =
                [b EXCEPT ![quote_asset] = [free |-> b[quote_asset].free - fee,
                                            locked |-> b[quote_asset].locked - amount],
                          ![base_asset] = [free |-> b[base_asset].free + order.filled_quantity,
                                           locked |-> b[base_asset].locked]]]
        ELSE [balances EXCEPT ![order.exchange] =
                [b EXCEPT ![base_asset] = [free |-> b[base_asset].free,
                                           locked |-> b[base_asset].locked - order.filled_quantity],
                          ![quote_asset] = [free |-> b[quote_asset].free + amount - fee,
                                            locked |-> b[quote_asset].locked]]]

\* simulator.py:399-406
Sim_is_trade_completed(orders, trade) ==
    /\ orders[trade.buy_order].status \in {"filled", "partially_filled"}
    /\ orders[trade.sell_order].status \in {"filled", "partially_filled"}

\* simulator.py:411-425: the trade after the part of _complete_trade before its await.
Sim_complete_trade(orders, trade) ==
    LET buy_cost == orders[trade.buy_order].filled_quantity * orders[trade.buy_order].average_price
        sell_proceeds == orders[trade.sell_order].filled_quantity
                            * orders[trade.sell_order].average_price
        fees_paid == SimFee(buy_cost) + SimFee(sell_proceeds)
    IN  [trade EXCEPT !.status = "completed",
                      !.fees_paid = fees_paid,
                      !.actual_profit = sell_proceeds - buy_cost - fees_paid]

\* simulator.py:427-433: the statistics after _complete_trade.
SimStatsAfterComplete(stats, orders, trade) ==
    LET done == Sim_complete_trade(orders, trade)
        buy_cost == orders[trade.buy_order].filled_quantity * orders[trade.buy_order].average_price
    IN  [stats EXCEPT !.total_profit = @ + done.actual_profit,
                      !.total_volume = @ + buy_cost,
                      !.successful_trades = IF done.actual_profit > 0 THEN @ + 1 ELSE @,
                      !.failed_trades = IF done.actual_profit > 0 THEN @ ELSE @ + 1]

\* simulator.py:271: the task at the top of its loop.
SimLoopTop(running) ==
    [pc |-> IF running THEN "sleep" ELSE "off", todo |-> <<>>, pos |-> 0, size0 |-> 0,
     done |-> <<>>]

\* simulator.py:287-290: the completed trades are moved to completed_trades.
RECURSIVE SimRemoveCompleted(_, _, _)
SimRemoveCompleted(active, completed, done) ==
    IF done = <<>> THEN [active |-> active, completed |-> completed]
    ELSE SimRemoveCompleted([k \in DOMAIN active \ {Head(done)} |-> active[k]],
                            Append(completed, active[Head(done)]),
                            Tail(done))

\* simulator.py:282-283: the position (in the dict's order) of the next trade after
\* position pos that is completed; 0 if the iteration runs to its end.
RECURSIVE NextCompleted(_, _, _, _)
NextCompleted(orders, active, keys, pos) ==
    IF pos + 1 > Len(keys) THEN 0
    ELSE IF Sim_is_trade_completed(orders, active[keys[pos + 1]]) THEN pos + 1
    ELSE NextCompleted(orders, active, keys, pos + 1)

(***************************************************************************)
(* TradingSimulator: the state machine                                     *)
(***************************************************************************)

SimInitialBalances ==
    [ex \in SimExchanges |->
        [a \in SimAssets |->
            [free |-> IF a = "USDT" THEN initial_balance_usd * MoneyScale
                      ELSE initial_balance_ada,
             locked |-> 0]]]

SimInit ==
    /\ sim_is_running = FALSE
    /\ sim_balances = SimInitialBalances
    /\ sim_orders = <<>>
    /\ sim_active_trades = <<>>
    /\ sim_completed_trades = <<>>
    /\ sim_trade_counter = 0
    /\ sim_stats = [total_trades |-> 0, successful_trades |-> 0, failed_trades |-> 0,
                    total_profit |-> 0, total_fees |-> 0, total_volume |-> 0]
    /\ sim_proc = SimLoopTop(FALSE)
    /\ sim_aborted_orders = {}

\* simulator.py:130-137: start() sets the flag and creates the _process_orders task,
\* which enters its first sleep.
SimStart ==
    /\ ~sim_is_running
    /\ sim_proc.pc = "off"
    /\ sim_is_running' = TRUE
    /\ sim_proc' = SimLoopTop(TRUE)
    /\ UNCHANGED <<now, sim_balances, sim_orders, sim_active_trades, sim_completed_trades,
                   sim_trade_counter, sim_stats, sim_aborted_orders,
                   nonSimVars>>

\* simulator.py:139-142
SimStop ==
    /\ sim_is_running
    /\ sim_is_running' = FALSE
    /\ UNCHANGED <<now, sim_balances, sim_orders, sim_active_trades, sim_completed_trades,
                   sim_trade_counter, sim_stats, sim_proc,
                   sim_aborted_orders, nonSimVars>>

\* simulator.py:144-208: execute_arbitrage; reject_buy and reject_sell are the draws
\* of _should_reject_order for the two placements. The trade's id becomes the row id
\* that insert_trade returns (201, 539), here the number of trades inserted.
SimExecuteArbitrage(signal, reject_buy, reject_sell) ==
    /\ sim_trade_counter < MaxSimCalls
    /\ IF ~sim_is_running \/ ~Sim_can_execute_trade(sim_balances, signal)
       THEN UNCHANGED <<sim_balances, sim_orders, sim_active_trades, sim_trade_counter,
                           sim_stats, sim_aborted_orders>>
       ELSE LET trade_size == Sim_calculate_trade_size(sim_balances, signal)
                n == Cardinality(DOMAIN sim_orders)
                buy_id == n + 1
                sell_id == IF reject_buy THEN n + 1 ELSE n + 2
                created == (IF reject_buy THEN {} ELSE {buy_id})
                               \cup (IF reject_sell THEN {} ELSE {sell_id})
                buy_order == SimulatedOrder(buy_id, signal.buy_exchange, signal.symbol,
                                            "buy", trade_size, signal.buy_price, now)
                sell_order == SimulatedOrder(sell_id, signal.sell_exchange, signal.symbol,
                                             "sell", trade_size, signal.sell_price, now)
                orders == [k \in DOMAIN sim_orders \cup created |->
                              IF k \in DOMAIN sim_orders THEN sim_orders[k]
                              ELSE IF k = buy_id /\ ~reject_buy THEN buy_order
                              ELSE sell_order]
                reserved == Sim_reserve_balances(sim_balances, signal, trade_size)
                placed == ~reject_buy /\ ~reject_sell
                key == sim_trade_counter + 1
                trade == [ id |-> sim_stats.total_trades + 1, signal |-> signal,
                           buy_order |-> buy_id, sell_order |-> sell_id,
                           status |-> "pending", actual_profit |-> 0, fees_paid |-> 0,
                           stored_profit |-> signal.profit ]
            IN  /\ sim_trade_counter' = key
                /\ sim_orders' = orders
                /\ sim_balances' = IF placed THEN reserved.balances ELSE sim_balances
                /\ IF placed /\ reserved.ok
                   THEN /\ sim_active_trades' = (key :> trade) @@ sim_active_trades
                        /\ sim_stats' = [sim_stats EXCEPT !.total_trades = @ + 1]
                        /\ sim_aborted_orders' = sim_aborted_orders
                   ELSE /\ UNCHANGED <<sim_active_trades, sim_stats>>
                        /\ sim_aborted_orders' = sim_aborted_orders \cup created
    /\ UNCHANGED <<now, sim_is_running, sim_completed_trades, sim_proc, nonSimVars>>

\* simulator.py:280-293: the loop over active_trades from position pos on, up to the
\* await inside _complete_trade or to the end of the pass. changed: the dict changed
\* size since the iteration began, so the next step of the iteration raises
\* RuntimeError, which line 292 catches: the pass ends without removing anything.
SimCheckTrades(orders, pos, size0, done) ==
    LET keys == SortedSeq(DOMAIN sim_active_trades)
        changed == Len(keys) # size0
        k == NextCompleted(orders, sim_active_trades, keys, pos)
    IN  IF changed
        THEN /\ sim_proc' = SimLoopTop(sim_is_running)
             /\ UNCHANGED <<sim_active_trades, sim_completed_trades, sim_stats>>
        ELSE IF k # 0
        THEN /\ sim_active_trades' =
                    [sim_active_trades EXCEPT
                        ![keys[k]] = Sim_complete_trade(orders, sim_active_trades[keys[k]])]
             /\ sim_stats' = SimStatsAfterComplete(sim_stats, orders, sim_active_trades[keys[k]])
             /\ sim_proc' = [pc |-> "trades", todo |-> <<>>, pos |-> k, size0 |-> size0,
                             done |-> done]
             /\ UNCHANGED sim_completed_trades
        ELSE LET r == SimRemoveCompleted(sim_active_trades, sim_completed_trades, done)
             IN  /\ sim_active_trades' = r.active
                 /\ sim_completed_trades' = r.completed
                 /\ sim_proc' = SimLoopTop(sim_is_running)
                 /\ UNCHANGED sim_stats

\* simulator.py:273-285 and 319-344: the task wakes from its sleep, or resumes after
\* the _store_order of the order it filled last, and runs up to its next await: the
\* next due order of the snapshot is filled (partial: the draw of _should_partial_fill),
\* and when none is left the loop over active_trades begins.
SimProcessOrders(partial) ==
    /\ sim_proc.pc \in {"sleep", "orders"}
    /\ LET todo == IF sim_proc.pc = "sleep" THEN SortedSeq(DOMAIN sim_orders)
                   ELSE sim_proc.todo
           i == FirstDue(sim_orders, todo, 1, now)
       IN  IF i # 0
           THEN LET filled == Sim_fill_order(sim_orders[todo[i]], partial)
                IN  /\ sim_orders' = [sim_orders EXCEPT ![todo[i]] = filled]
                    /\ sim_balances' = Sim_update_balances_after_fill(sim_balances, filled)
                    /\ sim_stats' = [sim_stats EXCEPT !.total_fees =
                                        @ + SimFee(filled.filled_quantity * filled.average_price)]
                    /\ sim_proc' = [pc |-> "orders", todo |-> SubSeq(todo, i + 1, Len(todo)),
                                    pos |-> 0, size0 |-> 0, done |-> <<>>]
                    /\ UNCHANGED <<sim_active_trades, sim_completed_trades>>
           ELSE /\ SimCheckTrades(sim_orders, 0, Cardinality(DOMAIN sim_active_trades), <<>>)
                /\ UNCHANGED <<sim_orders, sim_balances>>
    /\ UNCHANGED <<now, sim_is_running, sim_trade_counter,
                   sim_aborted_orders, nonSimVars>>

\* simulator.py:436-449 and 285: update_trade_status returned (or raised, which is
\* logged); the trade is noted as completed and the loop over active_trades goes on.
SimTradeStatusUpdated ==
    /\ sim_proc.pc = "trades"
    /\ LET keys == SortedSeq(DOMAIN sim_active_trades)
           done == IF Len(keys) = sim_proc.size0
                   THEN Append(sim_proc.done, keys[sim_proc.pos])
                   ELSE sim_proc.done
       IN  SimCheckTrades(sim_orders, sim_proc.pos, sim_proc.size0, done)
    /\ UNCHANGED <<now, sim_is_running, sim_balances, sim_orders, sim_trade_counter,
                   sim_aborted_orders, nonSimVars>>

\* The clock of a simulator run advances.
SimTick(d) ==
    /\ now + d <= SimMaxTime
    /\ now' = now + d
    /\ UNCHANGED <<simVars, nonSimVars>>


(***************************************************************************)
(* LiveTrader: pure parts                                                  *)
(***************************************************************************)

\* trader.py:257-281 for a configured trade amount and position limit (USD) and the
\* balances buy_balance (quote asset, in 1/MoneyScale) and sell_balance (base asset).
Live_trade_size(signal, buy_balance, sell_balance, amount_usd, position_limit) ==
    LET max_buy_size == buy_balance \div signal.buy_price
        max_sell_size == sell_balance
        desired_size == (amount_usd * MoneyScale) \div signal.buy_price
        max_size == Min5(max_buy_size, max_sell_size, signal.buy_size, signal.sell_size,
                         desired_size)
        limited == IF max_size * signal.buy_price > position_limit * MoneyScale
                   THEN (position_limit * MoneyScale) \div signal.buy_price
                   ELSE max_size
    IN  Max(0, limited)

\* trader.py:257-281
Live_calculate_trade_size(signal) ==
    Live_trade_size(signal, LiveQuoteBalance * MoneyScale, LiveBaseBalance,
                    trade_amount_usd, max_position_size)

\* trader.py:283-321; age is time.time() - signal.timestamp.
Live_risk_checks(signal, age, current_drawdown) ==
    /\ ~(signal.profit_percent < min_profit_threshold)
    /\ ~(LiveQuoteBalance < trade_amount_usd)
    /\ ~(LiveBaseBalance * signal.sell_price < trade_amount_usd * MoneyScale)
    /\ ~(current_drawdown > max_drawdown_percent)
    /\ ~(age > max_spread_age_seconds)

\* The part of the LiveTrader's state that the monitor and stop() work on.
LiveState ==
    [ trades |-> lt_trades, active |-> lt_active_trades, log |-> lt_status_log,
      cancels |-> lt_cancel_requests, timed_out |-> lt_timed_out, stats |-> lt_stats,
      db |-> lt_db_updates,
      pc |-> "", last |-> 0, completed |-> <<>> ]

\* An assignment to trade.status by the monitor, stop() or execute_arbitrage.
SetStatus(R, key, status, by) ==
    IF R.trades[key].status = status THEN R
    ELSE [R EXCEPT !.trades[key].status = status,
                   !.log[key] = Append(@, [status |-> status, by |-> by])]

\* trader.py:369-389: the overall status from the two orders, when both exist.
Live_update_trade_status(R, key) ==
    LET trade == R.trades[key]
    IN  IF trade.buy_order # "none" /\ trade.sell_order # "none"
        THEN IF trade.buy_order = "filled" /\ trade.sell_order = "filled"
             THEN SetStatus(R, key, "completed", "monitor")
             ELSE IF trade.buy_order = "rejected" \/ trade.sell_order = "rejected"
             THEN SetStatus(R, key, "failed", "monitor")
             ELSE R
        ELSE R

\* trader.py:395-412: cancel_raises: the first cancel_order request raises.
Live_cancel_trade(R, key, by, cancel_raises) ==
    LET trade == R.trades[key]
        buy == IF trade.buy_order = "new" THEN {[key |-> key, leg |-> "buy", by |-> by]}
               ELSE {}
        sell == IF trade.sell_order = "new" THEN {[key |-> key, leg |-> "sell", by |-> by]}
                ELSE {}
    IN  IF cancel_raises /\ buy \cup sell # {}
        THEN [R EXCEPT !.cancels = @ \cup (IF buy # {} THEN buy ELSE sell)]
        ELSE SetStatus([R EXCEPT !.cancels = @ \cup buy \cup sell], key, "cancelled", by)

\* trader.py:414-435: update_trade_status with the trade's status, then the counters.
Live_finalize_trade(R, key) ==
    LET updated == [R EXCEPT !.db = (key :> R.trades[key].status) @@ @]
    IN  IF R.trades[key].status = "completed"
        THEN [updated EXCEPT !.stats.successful_trades = @ + 1]
        ELSE [updated EXCEPT !.stats.failed_trades = @ + 1]

\* trader.py:333-342: the body of the monitor's loop after _update_trade_status.
MonitorHandle(R, key, cancel_raises, t) ==
    LET trade == R.trades[key]
    IN  IF t - trade.start_time > trade_timeout_seconds
        THEN LET noted == [R EXCEPT !.timed_out =
                              (key :> [buy_order |-> trade.buy_order,
                                       sell_order |-> trade.sell_order]) @@ @]
                 cancelled == Live_cancel_trade(noted, key, "monitor", cancel_raises)
             IN  [cancelled EXCEPT !.completed = Append(@, key)]
        ELSE IF trade.status \in TerminalTradeStatuses
        THEN Live_finalize_trade([R EXCEPT !.completed = Append(@, key)], key)
        ELSE R

\* trader.py:344-346: del active_trades[trade_id] for the trades noted; a key that is
\* no longer there raises KeyError, which ends the removal.
RECURSIVE LiveRemoveCompleted(_, _)
LiveRemoveCompleted(active, completed) ==
    IF completed = <<>> THEN active
    ELSE IF Head(completed) \notin active THEN active
    ELSE LiveRemoveCompleted(active \ {Head(completed)}, Tail(completed))

\* trader.py:330-349: the monitor's pass from the trade after key `last` on, up to its
\* next await (the get_order_status of a trade that has an order) or to the end of the
\* pass. A dict that changed size since the iteration began raises RuntimeError at the
\* next step of the iteration, and the pass ends without removing anything.
RECURSIVE MonitorAdvance(_, _, _, _)
MonitorAdvance(R, last, size0, t) ==
    LET next == {k \in R.active : k > last}
        key == CHOOSE k \in next : \A j \in next : k <= j
    IN  IF Cardinality(R.active) # size0
        THEN [R EXCEPT !.pc = "sleep", !.last = 0, !.completed = <<>>]
        ELSE IF next = {}
        THEN [R EXCEPT !.active = LiveRemoveCompleted(R.active, R.completed),
                       !.pc = "sleep", !.last = 0, !.completed = <<>>]
        ELSE IF R.trades[key].buy_order # "none" \/ R.trades[key].sell_order # "none"
        THEN [R EXCEPT !.pc = "poll", !.last = key]
        ELSE MonitorAdvance(MonitorHandle(R, key, FALSE, t), key, size0, t)

\* trader.py:98-101: the loop of stop() from the trade after key `last` on, up to its
\* next await (a cancel_order request, noted as sent) or to its end.
RECURSIVE StopAdvance(_, _, _)
StopAdvance(R, last, size0) ==
    LET next == {k \in R.active : k > last}
        key == CHOOSE k \in next : \A j \in next : k <= j
        trade == R.trades[key]
    IN  IF Cardinality(R.active) # size0
        THEN [R EXCEPT !.pc = "raised", !.last = 0]
        ELSE IF next = {}
        THEN [R EXCEPT !.pc = "done", !.last = 0]
        ELSE IF trade.buy_order = "new" \/ trade.sell_order = "new"
        THEN [R EXCEPT !.pc = "cancel", !.last = key,
                       !.cancels = @ \cup {[key |-> key, by |-> "stop",
                                            leg |-> IF trade.buy_order = "new" THEN "buy"
                                                    ELSE "sell"]}]
        ELSE StopAdvance(Live_cancel_trade(R, key, "stop", FALSE), key, size0)

(***************************************************************************)
(* _calculate_trade_size of the two executors, applied to one input         *)
(***************************************************************************)

\* The inputs: prices in 1/MoneyScale, quote balances in 1/MoneyScale, the
\* configuration's trade_amount_usd and max_position_size in USD.
SizingPrices == {10000, 20000}
SizingBuySizes == {0, 50, 5000}
SizingSellSizes == {40, 5000}
SizingQuoteBalances == {0, 150 * MoneyScale, 10000 * MoneyScale}
SizingBaseBalances == {30, 10000}
SizingTradeAmounts == {100, 2000}
SizingPositionLimits == {1000}
NotComputed == -1

SizingInputs ==
    [ signal : [buy_price : SizingPrices, buy_size : SizingBuySizes,
                sell_size : SizingSellSizes],
      buy_balance : SizingQuoteBalances, sell_balance : SizingBaseBalances,
      trade_amount_usd : SizingTradeAmounts, max_position_size : SizingPositionLimits,
      live : {NotComputed}, sim : {NotComputed} ]

\* No input is given in the runs of the executors themselves.
NoSizing ==
    [ signal |-> [buy_price |-> 10000, buy_size |-> 0, sell_size |-> 0],
      buy_balance |-> 0, sell_balance |-> 0, trade_amount_usd |-> trade_amount_usd,
      max_position_size |-> max_position_size, live |-> 0, sim |-> 0 ]

\* trader.py:257-281 applied to the input.
SizingLive ==
    /\ sizing.live = NotComputed
    /\ sizing' = [sizing EXCEPT !.live = Live_trade_size(sizing.signal, sizing.buy_balance,
                                                         sizing.sell_balance,
                                                         sizing.trade_amount_usd,
                                                         sizing.max_position_size)]
    /\ UNCHANGED <<now, strategyVars, simVars, liveVars, detect, componentVars>>

\* simulator.py:479-499 applied to the input.
SizingSim ==
    /\ sizing.sim = NotComputed
    /\ sizing' = [sizing EXCEPT !.sim = Sim_trade_size(sizing.signal, sizing.buy_balance,
                                                       sizing.sell_balance,
                                                       sizing.trade_amount_usd)]
    /\ UNCHANGED <<now, strategyVars, simVars, liveVars, detect, componentVars>>

(***************************************************************************)
(* LiveTrader: the state machine                                           *)
(***************************************************************************)

LiveInit ==
    /\ lt_is_running = FALSE
    /\ lt_trades = <<>>
    /\ lt_active_trades = {}
    /\ lt_trade_counter = 0
    /\ lt_calls = <<>>
    /\ lt_stats = [total_trades |-> 0, successful_trades |-> 0, failed_trades |-> 0]
    /\ lt_mon = [pc |-> "off", last |-> 0, size0 |-> 0, completed |-> <<>>]
    /\ lt_stop = [pc |-> "idle", last |-> 0, size0 |-> 0]
    /\ lt_cancel_requests = {}
    /\ lt_status_log = <<>>
    /\ lt_timed_out = <<>>
    /\ lt_db_updates = <<>>
    /\ lt_entry_drawdown = 0

\* trader.py:79-87: start() sets the flag and creates the monitor task, which enters
\* its first sleep.
LiveStart ==
    /\ ~lt_is_running
    /\ lt_mon.pc = "off"
    /\ lt_stop.pc = "idle"
    /\ lt_is_running' = TRUE
    /\ lt_mon' = [lt_mon EXCEPT !.pc = "sleep"]
    /\ UNCHANGED <<now, lt_trades, lt_active_trades, lt_trade_counter, lt_calls, lt_stats,
                   lt_stop, lt_cancel_requests, lt_status_log, lt_timed_out, lt_db_updates,
                   lt_entry_drawdown, nonLiveVars>>

\* trader.py:105-161: execute_arbitrage up to its first await, the place_order of the
\* buy order. A trade whose size is not positive is created, added and removed again
\* within this stretch: only the counter shows it.
LiveExecuteArbitrage(signal, age, current_drawdown) ==
    /\ lt_trade_counter < MaxLiveTrades
    /\ IF \/ ~lt_is_running
          \/ Cardinality(lt_active_trades) >= max_concurrent_trades
          \/ ~Live_risk_checks(signal, age, current_drawdown)
       THEN UNCHANGED <<lt_trades, lt_active_trades, lt_trade_counter, lt_calls,
                        lt_status_log, lt_entry_drawdown>>
       ELSE LET key == lt_trade_counter + 1
                trade == [ status |-> "pending", start_time |-> now,
                           buy_order |-> "none", sell_order |-> "none" ]
            IN  /\ lt_trade_counter' = key
                /\ IF Live_calculate_trade_size(signal) > 0
                   THEN /\ lt_trades' = (key :> trade) @@ lt_trades
                        /\ lt_status_log' =
                              (key :> <<[status |-> "pending", by |-> "execute"]>>)
                                  @@ lt_status_log
                        /\ lt_calls' = (key :> "buy") @@ lt_calls
                        /\ lt_active_trades' = lt_active_trades \cup {key}
                        /\ lt_entry_drawdown' = current_drawdown
                   ELSE UNCHANGED <<lt_trades, lt_active_trades, lt_calls, lt_status_log,
                                    lt_entry_drawdown>>
    /\ UNCHANGED <<now, lt_is_running, lt_stats, lt_mon, lt_stop, lt_cancel_requests,
                   lt_timed_out, lt_db_updates, nonLiveVars>>

\* The ActiveTrade objects that active_trades, a suspended execute_arbitrage call, the
\* monitor (at key mon_at) or stop() (at key stop_at) still refer to; the others are
\* garbage.
Referenced(trades, active, calls, mon_at, stop_at) ==
    LET keep == {k \in DOMAIN trades : \/ k \in active
                                       \/ calls[k] \in {"buy", "sell", "store"}
                                       \/ k = mon_at
                                       \/ k = stop_at}
    IN  [k \in keep |-> trades[k]]

MonitorAt(mon) == IF mon.pc = "poll" THEN mon.last ELSE 0
StopAt(stop) == IF stop.pc = "cancel" THEN stop.last ELSE 0

\* How a call that failed at the given stage of _execute_trade ended: it returned
\* False, or del active_trades[trade_id] raised KeyError.
CallFailed == [buy |-> "buy_failed", sell |-> "sell_failed", store |-> "store_failed"]
CallRaised == [buy |-> "buy_raised", sell |-> "sell_raised", store |-> "store_raised"]

\* trader.py:141-147: the call returns False: the trade (with the orders it has by
\* then) is removed from active_trades (KeyError when the monitor removed it before).
LiveCallFails(key, trades) ==
    /\ lt_active_trades' = lt_active_trades \ {key}
    /\ lt_calls' = [lt_calls EXCEPT ![key] = IF key \in lt_active_trades
                                             THEN CallFailed[lt_calls[key]]
                                             ELSE CallRaised[lt_calls[key]]]
    /\ lt_trades' = Referenced(trades, lt_active_trades', lt_calls', MonitorAt(lt_mon),
                               StopAt(lt_stop))

\* trader.py:166-182: the buy order's place_order and _store_order return or raise.
LivePlaceBuyReturns(key, outcome, status) ==
    /\ key \in DOMAIN lt_calls
    /\ lt_calls[key] = "buy"
    /\ IF outcome = "ok"
       THEN /\ lt_trades' = [lt_trades EXCEPT ![key].buy_order = status]
            /\ lt_calls' = [lt_calls EXCEPT ![key] = "sell"]
            /\ UNCHANGED lt_active_trades
       ELSE LiveCallFails(key, IF outcome = "store_raises"
                                THEN [lt_trades EXCEPT ![key].buy_order = status]
                                ELSE lt_trades)
    /\ UNCHANGED <<now, lt_is_running, lt_trade_counter, lt_stats, lt_mon, lt_stop,
                   lt_cancel_requests, lt_status_log, lt_timed_out, lt_db_updates,
                   lt_entry_drawdown, nonLiveVars>>

\* trader.py:184-207: the sell order's place_order and _store_order return or raise;
\* when they raise, cancel_order is requested for the buy order.
LivePlaceSellReturns(key, outcome, status) ==
    /\ key \in DOMAIN lt_calls
    /\ lt_calls[key] = "sell"
    /\ IF outcome = "ok"
       THEN /\ lt_trades' = [lt_trades EXCEPT ![key].sell_order = status]
            /\ lt_calls' = [lt_calls EXCEPT ![key] = "store"]
            /\ UNCHANGED <<lt_active_trades, lt_cancel_requests>>
       ELSE /\ lt_cancel_requests' = lt_cancel_requests
                                        \cup {[key |-> key, leg |-> "buy", by |-> "execute"]}
            /\ LiveCallFails(key, IF outcome = "store_raises"
                                  THEN [lt_trades EXCEPT ![key].sell_order = status]
                                  ELSE lt_trades)
    /\ UNCHANGED <<now, lt_is_running, lt_trade_counter, lt_stats, lt_mon, lt_stop,
                   lt_status_log, lt_timed_out, lt_db_updates,
                   lt_entry_drawdown, nonLiveVars>>

\* trader.py:209-218 and 141-147: _store_trade returns or raises.
LiveStoreTradeReturns(key, raises) ==
    /\ key \in DOMAIN lt_calls
    /\ lt_calls[key] = "store"
    /\ IF raises
       THEN /\ LiveCallFails(key, lt_trades)
            /\ UNCHANGED lt_stats
       ELSE /\ lt_calls' = [lt_calls EXCEPT ![key] = "done"]
            /\ lt_stats' = [lt_stats EXCEPT !.total_trades = @ + 1]
            /\ lt_trades' = Referenced(lt_trades, lt_active_trades, lt_calls',
                                       MonitorAt(lt_mon), StopAt(lt_stop))
            /\ UNCHANGED lt_active_trades
    /\ UNCHANGED <<now, lt_is_running, lt_trade_counter, lt_mon, lt_stop,
                   lt_cancel_requests, lt_status_log, lt_timed_out, lt_db_updates,
                   lt_entry_drawdown, nonLiveVars>>

\* The state after the monitor ran up to its next await.
LiveMonitorResult(R) ==
    /\ lt_trades' = Referenced(R.trades, R.active, lt_calls, MonitorAt(R), 0)
    /\ lt_active_trades' = R.active
    /\ lt_status_log' = R.log
    /\ lt_cancel_requests' = R.cancels
    /\ lt_timed_out' = R.timed_out
    /\ lt_db_updates' = R.db
    /\ lt_stats' = R.stats
    /\ lt_mon' = [lt_mon EXCEPT !.pc = R.pc, !.last = R.last, !.completed = R.completed,
                                !.size0 = IF lt_mon.pc = "sleep"
                                          THEN Cardinality(lt_active_trades) ELSE @]

\* trader.py:325-331: the monitor wakes from its sleep and begins a pass.
LiveMonitorWakes ==
    /\ lt_mon.pc = "sleep"
    /\ LiveMonitorResult(MonitorAdvance(LiveState, 0, Cardinality(lt_active_trades), now))
    /\ UNCHANGED <<now, lt_is_running, lt_trade_counter, lt_calls, lt_stop,
                   lt_entry_drawdown, nonLiveVars>>

\* trader.py:331-342 and 352-393: the get_order_status requests of the trade the
\* monitor is at return buy_reply and sell_reply (or the first of them raises), the
\* trade's status is decided, a timeout or a terminal status is handled, and the pass
\* goes on.
LiveMonitorPolled(buy_reply, sell_reply, poll_raises, cancel_raises) ==
    /\ lt_mon.pc = "poll"
    /\ LET key == lt_mon.last
           trade == lt_trades[key]
           polled == [LiveState EXCEPT !.trades[key].buy_order = buy_reply,
                                       !.trades[key].sell_order = sell_reply,
                                       !.completed = lt_mon.completed]
           unpolled == [LiveState EXCEPT !.completed = lt_mon.completed]
           updated == IF poll_raises THEN unpolled
                      ELSE Live_update_trade_status(polled, key)
       IN  /\ buy_reply \in (IF trade.buy_order = "none" THEN {"none"}
                             ELSE OrderStatusAfter(trade.buy_order))
           /\ sell_reply \in (IF trade.sell_order = "none" THEN {"none"}
                              ELSE OrderStatusAfter(trade.sell_order))
           /\ poll_raises => buy_reply = trade.buy_order /\ sell_reply = trade.sell_order
           /\ LiveMonitorResult(MonitorAdvance(MonitorHandle(updated, key, cancel_raises, now),
                                               key, lt_mon.size0, now))
    /\ UNCHANGED <<now, lt_is_running, lt_trade_counter, lt_calls, lt_stop,
                   lt_entry_drawdown, nonLiveVars>>

\* The state after stop() ran up to its next await.
LiveStopResult(R, size0) ==
    /\ lt_trades' = Referenced(R.trades, R.active, lt_calls, 0, StopAt(R))
    /\ lt_status_log' = R.log
    /\ lt_cancel_requests' = R.cancels
    /\ lt_stop' = [pc |-> R.pc, last |-> R.last, size0 |-> size0]

\* trader.py:89-101: stop() clears the flag, cancels the monitor task and begins to
\* cancel the active trades.
LiveStop ==
    /\ lt_is_running
    /\ lt_stop.pc = "idle"
    /\ lt_is_running' = FALSE
    /\ lt_mon' = [pc |-> "off", last |-> 0, size0 |-> 0, completed |-> <<>>]
    /\ LiveStopResult(StopAdvance(LiveState, 0, Cardinality(lt_active_trades)),
                      Cardinality(lt_active_trades))
    /\ UNCHANGED <<now, lt_active_trades, lt_trade_counter, lt_calls, lt_stats,
                   lt_timed_out, lt_db_updates,
                   lt_entry_drawdown, nonLiveVars>>

\* trader.py:398-409 and 99-101: the cancel_order request stop() waits for returns or
\* raises, _cancel_trade finishes, and the loop of stop() goes on.
LiveStopCancelReturns(cancel_raises) ==
    /\ lt_stop.pc = "cancel"
    /\ LET key == lt_stop.last
           cancelled == Live_cancel_trade(LiveState, key, "stop", cancel_raises)
       IN  LiveStopResult(StopAdvance(cancelled, key, lt_stop.size0), lt_stop.size0)
    /\ UNCHANGED <<now, lt_is_running, lt_active_trades, lt_trade_counter, lt_calls,
                   lt_stats, lt_mon, lt_timed_out, lt_db_updates,
                   lt_entry_drawdown, nonLiveVars>>

\* The clock of a live trader run advances.
LiveTick(d) ==
    /\ now + d <= LiveMaxTime
    /\ now' = now + d
    /\ UNCHANGED <<liveVars, nonLiveVars>>


(***************************************************************************)
(* Specifications                                                          *)
(***************************************************************************)

\* The clock advances.
Tick(d) ==
    /\ now + d <= MaxTime
    /\ now' = now + d
    /\ UNCHANGED nonStrategyVars
    /\ UNCHANGED strategyVars

\* The tickers tried for a venue and a symbol: every quote and skew where the call
\* stores the ticker, one representative where the call drops it unread.
Stored(v, symbol) == symbol \in active_symbols /\ v \notin ConfigExchanges
TickerQuotes(v, symbol) ==
    IF Stored(v, symbol) THEN Quotes ELSE {[bid |-> 60000, ask |-> 60010]}
TickerSkews(v, symbol) == IF Stored(v, symbol) THEN VenueClockSkews ELSE {0}

(***************************************************************************)
(* Backtester                                                              *)
(***************************************************************************)

\* historical_data: for each key exchange_symbol that was loaded, the list of the
\* timestamps of its records in ascending order (backtester.py:92-98, 115-140). A
\* history with no key at all is what a CSV directory without the files gives.
BacktestKeys == { <<"binance", "BTCUSDT">>, <<"bybit", "BTCUSDT">> }
BacktestTimestampLists == { <<>>, <<1>>, <<3>>, <<1, 3>>, <<1, 9>> }
Histories ==
    {<<>>} \cup [BacktestKeys -> BacktestTimestampLists]
BacktestRuns == 2      \* the runs made over one history

\* backtester.py:165-170: the timestamps of all records, sorted.
Sorted_timestamps(historical_data) ==
    SortedSeq(UNION { Range(historical_data[key]) : key \in DOMAIN historical_data })

\* backtester.py:217-224: the records of a timestamp, in the order of the dict.
Ticker_updates(historical_data, timestamp) ==
    { key \in DOMAIN historical_data : timestamp \in Range(historical_data[key]) }

\* Backtester.__init__ (backtester.py:41-56) for a run over the history.
BacktestNew(history, results) ==
    [ historical_data |-> history, pc |-> "new", pos |-> 0, current_time |-> 0,
      strategy_running |-> FALSE, simulator_running |-> FALSE,
      replayed |-> <<>>,     \* history: the records that _on_ticker_update processed
      results |-> results ]   \* history: how each finished run ended
\* No backtest is run in the runs of the other components.
NoBacktest == [BacktestNew(<<>>, <<"none", "none">>) EXCEPT !.pc = "done"]

\* backtester.py:155-178: run_backtest up to the loop over the timestamps.
RunBacktest ==
    /\ bt.pc = "new"
    /\ Len(bt.results) < BacktestRuns
    /\ bt' = IF DOMAIN bt.historical_data = {}
             THEN \* line 158-159: raise ValueError("No historical data loaded")
                  [bt EXCEPT !.pc = "done", !.results = Append(@, "ValueError")]
             ELSE [bt EXCEPT !.pc = "loop", !.pos = 1, !.strategy_running = TRUE,
                             !.simulator_running = TRUE]
    /\ UNCHANGED nonBacktestVars

\* backtester.py:180-197 and 213-241: one round of the loop, _process_timestamp. The
\* call self.strategy._on_ticker_update(ticker) of line 241 gives one argument to
\* a method that takes (ticker, exchange_name) (strategy.py:106): it raises
\* TypeError, which nothing in run_backtest catches. After the last timestamp
\* lines 199-215 stop the simulator and the strategy and return the result.
ProcessTimestamp ==
    /\ bt.pc = "loop"
    /\ LET sorted_timestamps == Sorted_timestamps(bt.historical_data)
       IN  bt' = IF bt.pos > Len(sorted_timestamps)
                 THEN [bt EXCEPT !.pc = "done", !.strategy_running = FALSE,
                                 !.simulator_running = FALSE,
                                 !.results = Append(@, "returned")]
                 ELSE IF Ticker_updates(bt.historical_data, sorted_timestamps[bt.pos]) # {}
                 THEN [bt EXCEPT !.pc = "done",
                                 !.current_time = sorted_timestamps[bt.pos],
                                 !.results = Append(@, "TypeError")]
                 ELSE [bt EXCEPT !.pos = @ + 1,
                                 !.current_time = sorted_timestamps[bt.pos]]
    /\ UNCHANGED nonBacktestVars

\* A further run over the same history with a new Backtester.
NextBacktest ==
    /\ bt.pc = "done"
    /\ Len(bt.results) < BacktestRuns
    /\ bt' = BacktestNew(bt.historical_data, bt.results)
    /\ UNCHANGED nonBacktestVars

(***************************************************************************)
(* ArBot.start: the symbol universe and the subscriptions (main.py)        *)
(*                                                                         *)
(* A symbol is its canonical string.  A venue's answer to get_symbols is   *)
(* the set of the symbols it lists (the code turns the list into a set     *)
(* before it is used) or an error of the request.  list(a_set) has the     *)
(* iteration order of the set, which the language leaves open: it is drawn *)
(* from all the orders of the set.                                         *)
(***************************************************************************)
UniverseVenues == {"binance", "bybit", "bitget"}

\* The symbols of the market, in the order sorted() gives them.
MarketSymbols == <<"1000PEPEUSDT", "BTCUSDT", "ETHBTC", "ETHUSDT", "STORJUSDT", "XRPUSDT">>

\* symbol.endswith(quote), for the symbols of the market and the quote currencies
\* USDT and BTC.
EndsWith(symbol, quote) ==
    \/ quote = "USDT" /\ symbol \in {"1000PEPEUSDT", "BTCUSDT", "ETHUSDT", "STORJUSDT", "XRPUSDT"}
    \/ quote = "BTC" /\ symbol = "ETHBTC"

\* symbol[0].isdigit()
StartsWithDigit(symbol) == symbol = "1000PEPEUSDT"

\* The deny-lists of _filter_symbols_for_exchange, as far as the market goes.
ProblematicSymbols(exchange_name) ==
    CASE exchange_name = "bybit" -> {"STORJUSDT"}
      [] exchange_name = "bitget" -> {"1000PEPEUSDT", "STORJUSDT"}
      [] OTHER -> {}

Filter_symbols_for_exchange(symbols, exchange_name) ==
    CASE exchange_name = "bybit" ->
            { s \in symbols : s \notin ProblematicSymbols("bybit") }
      [] exchange_name = "bitget" ->
            { s \in symbols : s \notin ProblematicSymbols("bitget") /\ ~StartsWithDigit(s) }
      [] OTHER -> symbols

\* common_symbols of _get_fallback_symbols_for_exchange, as far as the market
\* goes; none of them is on a deny-list or starts with a digit.
Fallback_symbols_for_exchange(exchange_name) ==
    LET common_symbols == {"BTCUSDT", "ETHUSDT", "XRPUSDT"}
    IN  IF exchange_name = "bitget"
        THEN { s \in common_symbols : ~StartsWithDigit(s) }
        ELSE common_symbols

exchange_limits == [upbit |-> 100, binance |-> 200, bybit |-> 200, bitget |-> 200]

\* max_symbols_per_connection of each adapter's connect_ws.
max_symbols_per_connection == [binance |-> 200, bybit |-> 50, bitget |-> 50]

\* The dicts of enabled exchanges (in insertion order), the values of
\* config.arbitrage.max_symbols and of enabled_quote_currencies, and the
\* listings of a venue that are drawn.
ExchangeLists ==
    { <<"binance">>, <<"bitget">>, <<"binance", "bybit">>, <<"binance", "bitget">>,
      <<"bybit", "bitget">>, <<"binance", "bybit", "bitget">> }
MaxSymbolsValues == {1, 2, 200}
EnabledQuoteLists == { <<"USDT">>, <<"BTC">>, <<"USDT", "BTC">> }
Listings ==
    { {}, {"ETHBTC"}, {"BTCUSDT", "ETHBTC", "ETHUSDT"}, {"ETHUSDT", "XRPUSDT"},
      {"1000PEPEUSDT", "BTCUSDT", "STORJUSDT", "XRPUSDT"} }
VenueResponses == [raises : BOOLEAN, symbols : Listings]
NoResponse == [raises |-> FALSE, symbols |-> {}]

\* The iteration orders of a set of at most MaxListed symbols: the orders of
\* the positions of its sorted list.
MaxListed == 4
SetOrders == { o \in [1..MaxListed -> 1..MaxListed] : Range(o) = 1..MaxListed }

\* sorted(list(symbols)), and list(symbols) under an iteration order.
Sorted(symbols) == SelectSeq(MarketSymbols, LAMBDA s : s \in symbols)
ListOf(symbols, order) ==
    LET sorted == Sorted(symbols)
        positions == SelectSeq(order, LAMBDA i : i <= Len(sorted))
    IN  [j \in 1..Len(sorted) |-> sorted[positions[j]]]

\* a_list[:n]
Prefix(a_list, n) == SubSeq(a_list, 1, Min(n, Len(a_list)))

\* exchange.get_symbols(): Bitget's catches the error of the request and
\* returns [] (bitget.py:468-470); the others let it through.
Get_symbols(exchange_name, response) ==
    IF response.raises
    THEN IF exchange_name = "bitget" THEN [raises |-> FALSE, symbols |-> {}]
         ELSE [raises |-> TRUE, symbols |-> {}]
    ELSE response

\* exchange_symbols of get_common_symbols_with_volume, main.py:584-618: the
\* venues with an entry, and their entries.
Exchange_symbols_keys(u) ==
    SelectSeq(u.exchanges,
              LAMBDA v : LET r == Get_symbols(v, u.responses[v])
                         IN  r.raises \/ r.symbols # {})

Exchange_symbols(u, exchange_name) ==
    LET r == Get_symbols(exchange_name, u.responses[exchange_name])
    IN  IF r.raises THEN Fallback_symbols_for_exchange(exchange_name)
        ELSE LET usdt_symbols == { s \in r.symbols : EndsWith(s, "USDT") }
             IN  Filter_symbols_for_exchange(usdt_symbols, exchange_name)

\* main.py:673-677
Min_limit(u) ==
    LET limits == { exchange_limits[v] : v \in Range(u.exchanges) \cap DOMAIN exchange_limits }
    IN  IF limits = {} THEN u.max_symbols
        ELSE Min(u.max_symbols, CHOOSE l \in limits : \A m \in limits : l <= m)

\* get_common_symbols_with_volume, main.py:575-688, under an iteration order.
Get_common_symbols_with_volume(u, order) ==
    LET keys == Exchange_symbols_keys(u)
    IN  IF Len(u.exchanges) < 1 THEN <<>>
        ELSE IF Len(keys) = 0 THEN <<>>
        ELSE IF Len(u.exchanges) = 1
        THEN Prefix(ListOf(Exchange_symbols(u, keys[1]), order), u.max_symbols)
        ELSE LET common_symbols ==
                     { s \in Range(MarketSymbols) :
                         \A i \in 1..Len(keys) : s \in Exchange_symbols(u, keys[i]) }
             IN  IF common_symbols = {}
                 THEN Prefix(ListOf(Exchange_symbols(u, keys[1]), order), u.max_symbols)
                 ELSE Prefix(Sorted(common_symbols), Min_limit(u))

\* The symbols an adapter subscribes to in connect_ws(symbols): Bitget keeps
\* the ones get_symbols lists (bitget.py:96-103, 136-153), and every adapter
\* cuts the list at its max_symbols_per_connection.
Subscribed_symbols(u, exchange_name, symbols) ==
    LET available_set == Get_symbols(exchange_name, u.responses[exchange_name]).symbols
        valid_symbols ==
            IF exchange_name = "bitget"
            THEN SelectSeq(symbols, LAMBDA s : s \in available_set)
            ELSE symbols
    IN  Prefix(valid_symbols, max_symbols_per_connection[exchange_name])

UniverseNew(exchanges, responses, max_symbols, enabled_quote_currencies) ==
    [ exchanges |-> exchanges,
      responses |-> responses,
      max_symbols |-> max_symbols,
      enabled_quote_currencies |-> enabled_quote_currencies,
      pc |-> "created",             \* where the start() call is
      dynamic_symbols |-> <<>>,
      active_symbols |-> <<>>,      \* strategy.active_symbols
      is_running |-> FALSE,
      next |-> 1,                   \* the exchange whose connect_ws is next
      connected |-> [v \in UniverseVenues |-> FALSE],
      subscribed |-> [v \in UniverseVenues |-> <<>>] ]

NoUniverse ==
    [UniverseNew(<<"binance">>, [v \in UniverseVenues |-> NoResponse], 200, <<"USDT">>)
        EXCEPT !.pc = "stopped"]

\* start(), main.py:690-719: the universe is computed and given to the
\* strategy; without a symbol the call raises ValueError.
StartDetects(order) ==
    /\ universe.pc = "created"
    /\ LET dynamic_symbols == Get_common_symbols_with_volume(universe, order)
       IN  universe' =
              IF dynamic_symbols = <<>>
              THEN [universe EXCEPT !.pc = "failed"]
              ELSE [universe EXCEPT !.pc = "connecting",
                                    !.dynamic_symbols = dynamic_symbols,
                                    !.active_symbols = dynamic_symbols]
    /\ UNCHANGED nonUniverseVars

\* start(), main.py:721-733: connect_ws of the next exchange; the adapter
\* catches a refused connection and stays unconnected.  After the last one
\* is_running is set.
ConnectExchangeWs(ok) ==
    /\ universe.pc = "connecting"
    /\ LET exchange_name == universe.exchanges[universe.next]
           symbols_to_monitor == Prefix(universe.dynamic_symbols, universe.max_symbols)
           last == universe.next = Len(universe.exchanges)
       IN  universe' =
              [universe EXCEPT
                 !.connected[exchange_name] = ok,
                 !.subscribed[exchange_name] =
                     IF ok THEN Subscribed_symbols(universe, exchange_name, symbols_to_monitor)
                     ELSE <<>>,
                 !.next = @ + 1,
                 !.pc = IF last THEN "running" ELSE @,
                 !.is_running = last]
    /\ UNCHANGED nonUniverseVars

(***************************************************************************)
(* Config: loading the exchanges from the file and the environment         *)
(* (config.py)                                                             *)
(*                                                                         *)
(* One venue is followed.  The file (config.json with config.local.json    *)
(* merged over it) has an entry for it or not; the environment has         *)
(* <VENUE>_API_KEY, <VENUE>_API_SECRET and <VENUE>_TESTNET or not.         *)
(***************************************************************************)
ConfigVenues == {"bybit", "upbit"}

\* for exchange_name in ['binance', 'bybit', 'okx', 'bitget'], config.py:266
EnvExchangeNames == {"binance", "bybit", "okx", "bitget"}

\* None: os.getenv finds no such variable.
None == "None"

\* A dict without a key.
EmptyDict == <<>>

FileEntries ==
    [ api_key : {"", "file_key"},
      api_secret : {"file_secret"},
      testnet : BOOLEAN,
      enabled : BOOLEAN,
      arbitrage_enabled : BOOLEAN,
      region : {"global", "korea"},
      premium_baseline : {0, 3} ]

Environments ==
    [ API_KEY : {None, "env_key"},
      API_SECRET : {None, "env_secret"},
      TESTNET : {None, "true", "false"} ]

\* ExchangeConfig(name, api_key, api_secret) with the defaults of the dataclass,
\* config.py:21-29
ExchangeConfig(name, api_key, api_secret, testnet, enabled) ==
    [ name |-> name, api_key |-> api_key, api_secret |-> api_secret,
      testnet |-> testnet, enabled |-> enabled, arbitrage_enabled |-> TRUE,
      region |-> "global", premium_baseline |-> 0 ]

ConfigNew(venue, file, env) ==
    [ venue |-> venue,
      file |-> file,                \* config_data['exchanges']
      env |-> env,                  \* the variables <VENUE>_API_KEY, ...
      pc |-> "created",             \* where _load_config is
      exchanges |-> EmptyDict ]     \* self.exchanges

NoConfigLoad ==
    [ConfigNew("bybit", EmptyDict, [API_KEY |-> None, API_SECRET |-> None, TESTNET |-> None])
        EXCEPT !.pc = "loaded"]

\* _update_from_dict, config.py:155-186: self.exchanges is empty when the file
\* is read, so that an entry of the file makes a new ExchangeConfig of its
\* values.
UpdateFromDict ==
    /\ cfgload.pc = "created"
    /\ cfgload' =
          [cfgload EXCEPT
             !.pc = "file_read",
             !.exchanges =
                 [ name \in DOMAIN cfgload.file |->
                     [ name |-> name,
                       api_key |-> cfgload.file[name].api_key,
                       api_secret |-> cfgload.file[name].api_secret,
                       testnet |-> cfgload.file[name].testnet,
                       enabled |-> cfgload.file[name].enabled,
                       arbitrage_enabled |-> cfgload.file[name].arbitrage_enabled,
                       region |-> cfgload.file[name].region,
                       premium_baseline |-> cfgload.file[name].premium_baseline ] ]]
    /\ UNCHANGED nonConfigVars

\* _load_from_env, config.py:263-294
LoadFromEnv ==
    /\ cfgload.pc = "file_read"
    /\ LET api_key == cfgload.env.API_KEY
           api_secret == cfgload.env.API_SECRET
           \* os.getenv(..., "false").lower() == "true"
           testnet == cfgload.env.TESTNET = "true"
           exchange_name == cfgload.venue
           loaded ==
               IF exchange_name \in DOMAIN cfgload.exchanges
               THEN LET existing == cfgload.exchanges[exchange_name]
                    IN  [ name |-> exchange_name,
                          api_key |-> api_key,
                          api_secret |-> api_secret,
                          testnet |-> testnet,
                          enabled |-> existing.enabled,
                          arbitrage_enabled |-> existing.arbitrage_enabled,
                          region |-> existing.region,
                          premium_baseline |-> existing.premium_baseline ]
               ELSE ExchangeConfig(exchange_name, api_key, api_secret, testnet, TRUE)
       IN  cfgload' =
              [cfgload EXCEPT
                 !.pc = "loaded",
                 !.exchanges =
                     IF exchange_name \in EnvExchangeNames /\ api_key # None /\ api_secret # None
                     THEN [ name \in DOMAIN cfgload.exchanges \cup {exchange_name} |->
                              IF name = exchange_name THEN loaded ELSE cfgload.exchanges[name] ]
                     ELSE @]
    /\ UNCHANGED nonConfigVars

(***************************************************************************)
(* The adapters' symbol conversions (okx.py, upbit.py, bitget.py)          *)
(*                                                                         *)
(* A string is the sequence of its characters.                             *)
(***************************************************************************)
ConversionVenues == {"okx", "upbit", "bitget"}

Str_USDT == <<"U", "S", "D", "T">>
Str_USDC == <<"U", "S", "D", "C">>
Str_BTC == <<"B", "T", "C">>
Str_ETH == <<"E", "T", "H">>
Str_EUR == <<"E", "U", "R">>
Str_KRW == <<"K", "R", "W">>
Dash == <<"-">>

\* The strings that are converted: base and quote, joined with and without a
\* dash, and quote-dash-base as Upbit writes its markets.
ConversionBases == { Str_BTC, Str_ETH, <<"X">>, <<"X", "R", "P">> }
ConversionQuotes == { Str_USDT, Str_USDC, Str_BTC, Str_ETH, Str_EUR }
ConversionPrefixes == { Str_KRW, Str_BTC, Str_USDT }
ConversionStrings ==
    { base \o quote : base \in ConversionBases, quote \in ConversionQuotes }
    \cup { base \o Dash \o quote : base \in ConversionBases, quote \in ConversionQuotes }
    \cup { prefix \o Dash \o base : prefix \in ConversionPrefixes, base \in ConversionBases }

\* s.endswith(suffix), s.startswith(prefix), s[:-n], s[n:], '-' in s, s.replace('-', '')
StrEndsWith(s, suffix) ==
    Len(s) >= Len(suffix) /\ SubSeq(s, Len(s) - Len(suffix) + 1, Len(s)) = suffix
StrStartsWith(s, prefix) ==
    Len(s) >= Len(prefix) /\ SubSeq(s, 1, Len(prefix)) = prefix
StrDropLast(s, n) == SubSeq(s, 1, Len(s) - n)
StrDropFirst(s, n) == SubSeq(s, n + 1, Len(s))
HasDash(s) == \E i \in 1..Len(s) : s[i] = "-"
StrWithoutDashes(s) == SelectSeq(s, LAMBDA c : c # "-")

\* okx.py:94-120; the loop of the last branch tries the four suffixes the
\* branches before it have excluded.
Convert_symbol_to_okx_format(symbol) ==
    IF HasDash(symbol) THEN symbol
    ELSE IF StrEndsWith(symbol, Str_USDT) THEN StrDropLast(symbol, 4) \o Dash \o Str_USDT
    ELSE IF StrEndsWith(symbol, Str_USDC) THEN StrDropLast(symbol, 4) \o Dash \o Str_USDC
    ELSE IF StrEndsWith(symbol, Str_BTC) THEN StrDropLast(symbol, 3) \o Dash \o Str_BTC
    ELSE IF StrEndsWith(symbol, Str_ETH) THEN StrDropLast(symbol, 3) \o Dash \o Str_ETH
    ELSE symbol

\* okx.py:122-126
Convert_symbol_from_okx_format(okx_symbol) ==
    IF HasDash(okx_symbol) THEN StrWithoutDashes(okx_symbol) ELSE okx_symbol

\* upbit.py:350-359
Convert_symbol_to_upbit(symbol) ==
    IF StrEndsWith(symbol, Str_USDT) THEN Str_KRW \o Dash \o StrDropLast(symbol, 4)
    ELSE IF StrEndsWith(symbol, Str_BTC) THEN Str_BTC \o Dash \o StrDropLast(symbol, 3)
    ELSE symbol

\* The symbol _handle_ticker_data gives a ticker, upbit.py:227-240
Upbit_ticker_symbol(code) ==
    IF StrStartsWith(code, Str_KRW \o Dash) THEN StrDropFirst(code, 4) \o Str_USDT
    ELSE IF StrStartsWith(code, Str_BTC \o Dash) THEN StrDropFirst(code, 4) \o Str_BTC
    ELSE code

\* bitget.py:155-159; its tickers carry the symbol of the subscription.
Convert_to_bitget_symbol(symbol) == symbol

To_wire(venue, s) ==
    CASE venue = "okx" -> Convert_symbol_to_okx_format(s)
      [] venue = "upbit" -> Convert_symbol_to_upbit(s)
      [] venue = "bitget" -> Convert_to_bitget_symbol(s)

To_canonical(venue, w) ==
    CASE venue = "okx" -> Convert_symbol_from_okx_format(w)
      [] venue = "upbit" -> Upbit_ticker_symbol(w)
      [] venue = "bitget" -> w

ConversionNew(venue, s) ==
    [ venue |-> venue, s |-> s, pc |-> "input",
      wire |-> <<>>, canonical |-> <<>>, wire_again |-> <<>> ]

NoConversion == [ConversionNew("okx", <<>>) EXCEPT !.pc = "done"]

\* A request for the symbol: the adapter converts it to the venue's form.
ToWire ==
    /\ conv.pc = "input"
    /\ conv' = [conv EXCEPT !.pc = "wire", !.wire = To_wire(conv.venue, conv.s)]
    /\ UNCHANGED nonConversionVars

\* A message of the venue with that symbol: the adapter converts it back.
ToCanonical ==
    /\ conv.pc = "wire"
    /\ conv' = [conv EXCEPT !.pc = "canonical",
                            !.canonical = To_canonical(conv.venue, conv.wire)]
    /\ UNCHANGED nonConversionVars

\* A request for the symbol that the message carried.
ToWireAgain ==
    /\ conv.pc = "canonical"
    /\ conv' = [conv EXCEPT !.pc = "done",
                            !.wire_again = To_wire(conv.venue, conv.canonical)]
    /\ UNCHANGED nonConversionVars

(***************************************************************************)
(* Backtester.run_parameter_optimization (backtester.py)                   *)
(***************************************************************************)

\* The grid given to run_parameter_optimization: one parameter name with its list of
\* values. A name that config.arbitrage does not have is skipped by hasattr
\* (backtester.py:458).
SweepParameterNames == {"min_profit_threshold", "no_such_parameter"}
SweepValueLists == { <<>>, <<10>>, <<10, 50>>, <<50, 10>>, <<50, 50>>, <<5, 10, 50>> }

\* simulator.py:459-477 on balances of USDT and of coins valued at $1.
RECURSIVE Calculate_portfolio_value(_, _)
Calculate_portfolio_value(balances, exchanges) ==
    IF exchanges = {} THEN 0
    ELSE LET ex == CHOOSE x \in exchanges : TRUE
         IN  balances[ex]["USDT"].free + balances[ex]["USDT"].locked
             + (balances[ex]["ADA"].free + balances[ex]["ADA"].locked) * MoneyScale
             + Calculate_portfolio_value(balances, exchanges \ {ex})

\* TradingSimulator.__init__ (simulator.py:57-94): the fields that a backtest reads.
Simulator_new ==
    [ is_running |-> FALSE, balances |-> SimInitialBalances, completed_trades |-> <<>>,
      total_trades |-> 0, total_profit |-> 0, total_fees |-> 0, max_drawdown |-> 0 ]

\* Backtester.__init__ (backtester.py:41-57): ONE strategy and ONE simulator for all
\* the runs of the object.
Backtester_new(history) ==
    [ historical_data |-> history, simulator |-> Simulator_new,
      strategy_running |-> FALSE, portfolio_values |-> <<>>, daily_returns |-> <<>> ]

\* backtester.py:259-265: the returns between consecutive portfolio values, in 1/Scale.
Daily_returns(portfolio_values) ==
    [i \in 1..(Len(portfolio_values) - 1) |->
        ((portfolio_values[i + 1] - portfolio_values[i]) * Scale) \div portfolio_values[i]]

\* backtester.py:252-305: _calculate_results. The Sharpe ratio is 0 when there is no
\* return or the returns have no deviation (lines 268-273).
Calculate_results(b) ==
    LET returns == Daily_returns(b.portfolio_values)
    IN  [ total_trades |-> b.simulator.total_trades,
          net_profit |-> b.simulator.total_profit - b.simulator.total_fees,
          max_drawdown |-> b.simulator.max_drawdown,
          sharpe_ratio |-> 0,
          daily_returns |-> returns,
          portfolio_values |-> b.portfolio_values ]
NoResult == [ total_trades |-> 0, net_profit |-> 0, max_drawdown |-> 0, sharpe_ratio |-> 0,
              daily_returns |-> <<>>, portfolio_values |-> <<>> ]

\* backtester.py:155-215: one call of run_backtest on the Backtester b, to its return
\* or to the exception that leaves it. Nothing in it creates or resets the simulator,
\* the strategy or portfolio_values: start() only sets is_running
\* (simulator.py:130-137). The first timestamp that has a record ends the run with
\* the TypeError of line 241; a run that gets past the loop stops both and calculates
\* the result.
Run_backtest(b) ==
    IF DOMAIN b.historical_data = {}
    THEN [ backtester |-> b, outcome |-> "ValueError", result |-> NoResult ]
    ELSE LET started == [b EXCEPT
                 !.simulator.is_running = TRUE,
                 !.strategy_running = TRUE,
                 !.portfolio_values =
                     Append(@, Calculate_portfolio_value(b.simulator.balances,
                                                         SimExchanges))]
         IN  IF Sorted_timestamps(b.historical_data) # <<>>
             THEN [ backtester |-> started, outcome |-> "TypeError", result |-> NoResult ]
             ELSE LET stopped == [started EXCEPT
                          !.simulator.is_running = FALSE,
                          !.strategy_running = FALSE,
                          !.daily_returns = Daily_returns(started.portfolio_values)]
                  IN  [ backtester |-> stopped, outcome |-> "returned",
                        result |-> Calculate_results(stopped) ]

\* The Backtester with config.arbitrage.min_profit_threshold and the call of
\* run_parameter_optimization(parameters) on it.
SweepNew(history, name, values) ==
    [ backtester |-> Backtester_new(history),
      min_profit_threshold |-> min_profit_threshold,   \* config.arbitrage's value
      param_name |-> name, combinations |-> values,
      pc |-> "new", i |-> 0,
      best_score |-> "-inf", best_params |-> "None",
      starts |-> <<>>,      \* history: the simulator and the parameter at each run's start
      results |-> <<>> ]    \* history: how each combination's run ended
NoSweep == [SweepNew(<<>>, "no_such_parameter", <<>>) EXCEPT !.pc = "done"]

\* backtester.py:433-448: the combinations of the grid.
RunParameterOptimization ==
    /\ sweep.pc = "new"
    /\ sweep' = [sweep EXCEPT !.pc = IF sweep.combinations = <<>> THEN "done" ELSE "loop",
                              !.i = 1]
    /\ UNCHANGED nonSweepVars

\* backtester.py:450-482: the loop body for combination i: set the parameter if
\* config.arbitrage has it, run the backtest, keep the best score, log an exception,
\* and restore the parameter in the finally clause. After the last combination the
\* call returns (484-488).
TestParameters ==
    /\ sweep.pc = "loop"
    /\ LET value == sweep.combinations[sweep.i]
           has == sweep.param_name = "min_profit_threshold"
           used == IF has THEN value ELSE sweep.min_profit_threshold
           run == Run_backtest(sweep.backtester)
           better == run.outcome = "returned" /\ sweep.best_score = "-inf"
       IN  sweep' = [sweep EXCEPT
               !.backtester = run.backtester,
               !.starts = Append(@, [simulator |-> sweep.backtester.simulator,
                                     min_profit_threshold |-> used]),
               !.results = Append(@, [outcome |-> run.outcome, result |-> run.result]),
               !.best_score = IF better THEN "0" ELSE @,
               !.best_params = IF better THEN sweep.i ELSE @,
               !.i = @ + 1,
               !.pc = IF sweep.i = Len(sweep.combinations) THEN "done" ELSE "loop"]
    /\ UNCHANGED nonSweepVars

(***************************************************************************)
(* UpbitExchange: the KRW to USD rate (upbit.py)                           *)
(***************************************************************************)

rate_refresh_seconds == 600       \* upbit.py:82: "Update rate every 10 minutes"
default_krw_per_usd == 1300       \* upbit.py:27, 95: the rate 1.0 / 1300.0
\* time.time() when the adapter is constructed: far more than the interval after the
\* _rate_last_updated = 0 of upbit.py:28.
RateEpoch == 1000
RateMaxTime == 2400               \* the clock of the adapter stops advancing here
MaxRateRequests == 3              \* the requests of a run
RateTickSteps == {100, 600}

\* What the request GET /v1/ticker?markets=KRW-USDT gives: a trade_price in KRW per
\* USDT, an empty answer, or an exception (of _make_request, of the indexing, of
\* the division by a price of 0).
RateAnswers ==
    { [ended |-> "updated", trade_price |-> p] : p \in {1300, 1400} }
        \cup { [ended |-> e, trade_price |-> 0] : e \in {"empty", "raises"} }

\* UpbitExchange.__init__ (upbit.py:27-28). A rate is kept as the KRW per USD that
\* it is the reciprocal of; the rate 0 of line 94 is the value 0.
RateNew ==
    [ time |-> RateEpoch,
      krw_per_usd |-> default_krw_per_usd, rate_last_updated |-> 0,
      pc |-> "idle", current_time |-> 0,
      held |-> default_krw_per_usd,  \* history: the rate when the last call began
      requests |-> <<>>,     \* history: the times of the requests and how they ended
      returned |-> <<>> ]    \* history: the rate each call returned
NoRate == [RateNew EXCEPT !.time = RateMaxTime, !.pc = "off"]

\* upbit.py:223-234 and 77-85: the stream task handles a ticker of a KRW market and
\* calls _get_krw_to_usd_rate, which returns the rate held (line 97) or sends the
\* request (line 85). The task handles one message at a time (upbit.py:189-208).
GetKrwToUsdRate ==
    /\ fx.pc = "idle"
    /\ Len(fx.requests) < MaxRateRequests
    /\ Len(fx.returned) < MaxRateRequests
    /\ fx' = IF fx.time - fx.rate_last_updated > rate_refresh_seconds
             THEN [fx EXCEPT !.pc = "request", !.current_time = fx.time,
                             !.held = fx.krw_per_usd,
                             !.requests = Append(@, [at |-> fx.time, ended |-> "pending"])]
             ELSE [fx EXCEPT !.current_time = fx.time,
                             !.held = fx.krw_per_usd,
                             !.returned = Append(@, fx.krw_per_usd)]
    /\ UNCHANGED nonRateVars

\* upbit.py:85-97: the request returns. Only an answer with a price sets the rate
\* and _rate_last_updated, to the time read before the request.
RateRequestReturns(answer) ==
    /\ fx.pc = "request"
    /\ LET n == Len(fx.requests)
           after == IF answer.ended = "updated"
                    THEN [fx EXCEPT !.krw_per_usd = answer.trade_price,
                                    !.rate_last_updated = fx.current_time]
                    ELSE IF answer.ended = "raises" /\ fx.krw_per_usd = 0
                    THEN [fx EXCEPT !.krw_per_usd = default_krw_per_usd]
                    ELSE fx
       IN  fx' = [after EXCEPT
                     !.pc = "idle",
                     !.requests[n].ended = answer.ended,
                     !.returned = Append(@, after.krw_per_usd)]
    /\ UNCHANGED nonRateVars

RateTick(dt) ==
    /\ fx.time + dt <= RateMaxTime
    /\ fx' = [fx EXCEPT !.time = @ + dt]
    /\ UNCHANGED nonRateVars

(***************************************************************************)
(* ArBot: the premium history (main.py)                                    *)
(***************************************************************************)

outlier_threshold == 2            \* PremiumDetectionConfig.outlier_threshold = 2.0
MaxObservations == 3              \* the update_spread_history calls of a run

\* The keys exchange1_exchange2_symbol of main.py:295 and 313, the spread_pct values
\* observed, and the values of premium_detection that a configuration file may give
\* (config.py:193-200, which takes them as they are).
PremiumKeys == {"binance_bybit_BTCUSDT", "binance_bybit_ETHUSDT"}
SpreadPcts == {0, 1, 4}
LookbackPeriodsValues == {0, 1, 2}
MinSamplesValues == {1, 2, 3}

RECURSIVE SeqSum(_)
SeqSum(s) == IF s = <<>> THEN 0 ELSE Head(s) + SeqSum(Tail(s))

\* The slice list[-n:] of Python for n >= 0: the last n elements, and for n = 0
\* the slice list[0:], the whole list.
LastSlice(list, n) ==
    IF n = 0 \/ n >= Len(list) THEN list
    ELSE SubSeq(list, Len(list) - n + 1, Len(list))

\* main.py:291-306 on the list of one key.
Update_spread_history(history, spread_pct, max_periods) ==
    LET appended == Append(history, spread_pct)
    IN  IF Len(appended) > max_periods THEN LastSlice(appended, max_periods)
        ELSE appended

\* main.py:318-341 on a history of at least min_samples values. With n values of
\* sum S and sum of squares Q the mean is S / n and the sample variance is
\* (n * Q - S * S) / (n * (n - 1)); statistics.stdev raises StatisticsError for one
\* value, which gives std_spread = 0. The z-score |x - S / n| / stdev exceeds the
\* threshold t exactly when (n * x - S)^2 * (n - 1) > t^2 * n * (n * Q - S * S).
Adjusted_spread(history, spread_pct) ==
    LET n == Len(history)
        S == SeqSum(history)
        Q == SeqSum([i \in 1..n |-> history[i] * history[i]])
        std_positive == n >= 2 /\ n * Q - S * S > 0
        dev == n * spread_pct - S
    IN  [ annotated |-> TRUE,
          spread_pct |-> [num |-> dev, den |-> n],
          avg_premium |-> [num |-> S, den |-> n],
          std_positive |-> std_positive,
          is_outlier |-> /\ std_positive
                         /\ dev * dev * (n - 1)
                              > outlier_threshold * outlier_threshold * n * (n * Q - S * S) ]

\* main.py:308-317: the spread itself is returned when detection is disabled or the
\* history of the key is shorter than min_samples.
Get_adjusted_spread(p, key, spread_pct) ==
    IF ~p.enabled \/ Len(p.spread_history[key]) < p.min_samples
    THEN [ annotated |-> FALSE, spread_pct |-> [num |-> spread_pct, den |-> 1],
           avg_premium |-> [num |-> 0, den |-> 1], std_positive |-> FALSE,
           is_outlier |-> FALSE ]
    ELSE Adjusted_spread(p.spread_history[key], spread_pct)

\* ArBot.__init__ (main.py:54) with the premium detection of the configuration. A
\* key that is not in the dict has the list [] of spread_history.get(key, []).
PremiumNew(enabled, lookback_periods, min_samples) ==
    [ enabled |-> enabled, lookback_periods |-> lookback_periods,
      min_samples |-> min_samples,
      spread_history |-> [key \in PremiumKeys |-> <<>>],
      observed |-> [key \in PremiumKeys |-> <<>>],   \* history: every value given
      calls |-> 0,
      last |-> [ key |-> "none", spread_pct |-> 0, samples |-> 0,
                 adjusted |-> Get_adjusted_spread(
                                  [enabled |-> FALSE, min_samples |-> 0,
                                   spread_history |-> [key \in PremiumKeys |-> <<>>]],
                                  "binance_bybit_BTCUSDT", 0) ] ]
NoPremium == [PremiumNew(FALSE, 0, 1) EXCEPT !.calls = MaxObservations]

\* main.py:291-306
UpdateSpreadHistory(key, spread_pct) ==
    /\ premium.calls < MaxObservations
    /\ premium' = [premium EXCEPT
           !.calls = @ + 1,
           !.observed[key] = Append(@, spread_pct),
           !.spread_history[key] =
               IF premium.enabled
               THEN Update_spread_history(@, spread_pct, premium.lookback_periods)
               ELSE @]
    /\ UNCHANGED nonPremiumVars

\* main.py:308-344
GetAdjustedSpread(key, spread_pct) ==
    /\ premium' = [premium EXCEPT
           !.last = [ key |-> key, spread_pct |-> spread_pct,
                      samples |-> Len(premium.spread_history[key]),
                      adjusted |-> Get_adjusted_spread(premium, key, spread_pct) ]]
    /\ UNCHANGED nonPremiumVars

(***************************************************************************)
(* The batch buffer with its calls in flight (test_gui_batch.py,            *)
(* database.py)                                                            *)
(***************************************************************************)

FlushMaxTime == 3        \* the clock stops here
MaxFlushRecords == 3     \* no ticker arrives once this many records were buffered

\* Each venue's stream task awaits the ticker callback (exchanges/base.py:149-156), so
\* a venue has at most one _add_to_ticker_batch call in flight; the calls of two
\* venues interleave at the awaits of the bulk insert. Every venue streams one symbol.
FlushCallIdle == [pc |-> "idle", data |-> <<>>]

\* MockGUI.__init__ (test_gui_batch.py:20-27)
FlushNew ==
    [ time |-> 0, ticker_buffer |-> <<>>, last_ticker_storage |-> <<>>,
      last_batch_storage |-> 0,
      call |-> [exchange_name \in GuiExchanges |-> FlushCallIdle],
      records |-> 0,      \* history: the records appended to the buffer, numbered
      rows |-> <<>> ]     \* the rows of the tickers table, by the record's number
NoBatch == [FlushNew EXCEPT !.records = MaxFlushRecords, !.time = FlushMaxTime]

\* test_gui_batch.py:29-65 and 67-74, database.py:246-251: _add_to_ticker_batch up to
\* its return or, when the buffer is to be flushed, up to the first await of
\* insert_tickers_batch(self.ticker_buffer), the connect to the database.
AddToTickerBatchCall(exchange_name) ==
    /\ batch.call[exchange_name].pc = "idle"
    /\ batch.records < MaxFlushRecords
    /\ LET current_time == batch.time
           gate == \/ exchange_name \notin DOMAIN batch.last_ticker_storage
                   \/ current_time - batch.last_ticker_storage[exchange_name]
                         >= ticker_storage_interval_seconds
           added == [batch EXCEPT
                       !.ticker_buffer = Append(@, batch.records + 1),
                       !.last_ticker_storage = (exchange_name :> current_time) @@ @,
                       !.records = @ + 1]
       IN  batch' = IF ~gate THEN batch
                    ELSE IF \/ Len(added.ticker_buffer) >= ticker_batch_size
                            \/ current_time - batch.last_batch_storage
                                  >= ticker_batch_interval_seconds
                    THEN [added EXCEPT !.call[exchange_name].pc = "connect"]
                    ELSE added
    /\ UNCHANGED nonFlushVars

\* database.py:251-258: the connection is there; the rows are built from the list
\* that was passed, the buffer object itself as it is now, and executemany is awaited.
FlushConnectReturns(exchange_name) ==
    /\ batch.call[exchange_name].pc = "connect"
    /\ batch' = [batch EXCEPT !.call[exchange_name] =
                     [pc |-> "insert", data |-> batch.ticker_buffer]]
    /\ UNCHANGED nonFlushVars

\* database.py:255-260 and test_gui_batch.py:76-83: executemany and commit return, the
\* rows are in the table; _flush_ticker_batch clears the buffer and sets
\* last_batch_storage.
FlushInsertReturns(exchange_name) ==
    /\ batch.call[exchange_name].pc = "insert"
    /\ batch' = [batch EXCEPT
           !.rows = @ \o batch.call[exchange_name].data,
           !.ticker_buffer = <<>>,
           !.last_batch_storage = batch.time,
           !.call[exchange_name] = FlushCallIdle]
    /\ UNCHANGED nonFlushVars

FlushTick ==
    /\ batch.time < FlushMaxTime
    /\ batch' = [batch EXCEPT !.time = @ + 1]
    /\ UNCHANGED nonFlushVars

\* The components that are not driven in a run.
ComponentsIdle ==
    /\ ws = NoStream
    /\ gui = NoGui
    /\ bt = NoBacktest
    /\ universe = NoUniverse
    /\ cfgload = NoConfigLoad
    /\ conv = NoConversion
    /\ emit = NoEmit
    /\ sweep = NoSweep
    /\ fx = NoRate
    /\ premium = NoPremium
    /\ batch = NoBatch

Init ==
    /\ now = 0
    /\ StrategyInit
    /\ SimInit
    /\ LiveInit
    /\ sizing = NoSizing
    /\ detect = NoDetect
    /\ ComponentsIdle

Next ==
    \/ Start
    \/ Stop
    \/ \E v \in Exchanges, symbol \in Symbols :
          \E q \in TickerQuotes(v, symbol), skew \in TickerSkews(v, symbol) :
             OnTickerUpdate(v, symbol, q, skew)
    \/ \E v \in Exchanges : InsertTickerReturns(v)
    \/ \E v \in Exchanges : InsertOpportunityReturns(v, FALSE)
    \/ \E d \in TickSteps : Tick(d)

Spec == Init /\ [][Next]_vars

\* The strategy with a database whose insert_arbitrage_opportunity may raise (which
\* changes nothing but the log), driven by venues whose clocks agree with the local
\* one.
InsertNext ==
    \/ Start
    \/ Stop
    \/ \E v \in Exchanges, symbol \in Symbols :
          \E q \in TickerQuotes(v, symbol) : OnTickerUpdate(v, symbol, q, 0)
    \/ \E v \in Exchanges : InsertTickerReturns(v)
    \/ \E v \in Exchanges, raises \in BOOLEAN : InsertOpportunityReturns(v, raises)
    \/ \E d \in TickSteps : Tick(d)

InsertSpec == Init /\ [][InsertNext]_vars

SimNext ==
    \/ SimStart
    \/ SimStop
    \/ \E signal \in SimSignals, reject_buy \in BOOLEAN, reject_sell \in BOOLEAN :
          SimExecuteArbitrage(signal, reject_buy, reject_sell)
    \/ \E partial \in BOOLEAN : SimProcessOrders(partial)
    \/ SimTradeStatusUpdated
    \/ \E d \in SimTickSteps : SimTick(d)

SimSpec == Init /\ [][SimNext]_vars

LiveNext ==
    \/ LiveStart
    \/ \E signal \in LiveSignals, age \in SignalAges, current_drawdown \in Drawdowns :
          LiveExecuteArbitrage(signal, age, current_drawdown)
    \/ \E key \in 1..MaxLiveTrades, status \in PlacedStatuses :
          \/ LivePlaceBuyReturns(key, "ok", status)
          \/ LivePlaceBuyReturns(key, "store_raises", status)
          \/ LivePlaceSellReturns(key, "ok", status)
          \/ LivePlaceSellReturns(key, "store_raises", status)
    \/ \E key \in 1..MaxLiveTrades :
          \/ LivePlaceBuyReturns(key, "place_raises", "none")
          \/ LivePlaceSellReturns(key, "place_raises", "none")
          \/ \E raises \in BOOLEAN : LiveStoreTradeReturns(key, raises)
    \/ LiveMonitorWakes
    \/ \E buy_reply \in OrderStatuses \cup {"none"}, sell_reply \in OrderStatuses \cup {"none"},
          poll_raises \in BOOLEAN, cancel_raises \in BOOLEAN :
          LiveMonitorPolled(buy_reply, sell_reply, poll_raises, cancel_raises)
    \/ LiveStop
    \/ \E cancel_raises \in BOOLEAN : LiveStopCancelReturns(cancel_raises)
    \/ \E d \in LiveTickSteps : LiveTick(d)

LiveSpec == Init /\ [][LiveNext]_vars

SizingInit ==
    /\ now = 0
    /\ StrategyInit
    /\ SimInit
    /\ LiveInit
    /\ sizing \in SizingInputs
    /\ detect = NoDetect
    /\ ComponentsIdle

SizingNext ==
    \/ SizingLive
    \/ SizingSim

SizingSpec == SizingInit /\ [][SizingNext]_vars

DetectInit ==
    /\ now = 0
    /\ StrategyInit
    /\ SimInit
    /\ LiveInit
    /\ sizing = NoSizing
    /\ detect \in DetectInputs
    /\ ComponentsIdle

DetectNext == DetectPair

DetectSpec == DetectInit /\ [][DetectNext]_vars

\* One venue adapter, from construction on.
StreamInit ==
    /\ now = 0
    /\ StrategyInit
    /\ SimInit
    /\ LiveInit
    /\ sizing = NoSizing
    /\ detect = NoDetect
    /\ ws \in { WsNew(v) : v \in Adapters }
    /\ gui = NoGui
    /\ bt = NoBacktest
    /\ universe = NoUniverse
    /\ cfgload = NoConfigLoad
    /\ conv = NoConversion
    /\ emit = NoEmit
    /\ sweep = NoSweep
    /\ fx = NoRate
    /\ premium = NoPremium
    /\ batch = NoBatch

StreamNext ==
    \/ \E symbols \in WsSymbolLists, ok \in BOOLEAN : ConnectWs(symbols, ok)
    \/ WsTicker
    \/ \E how \in WsClosures : WsCloses(how)
    \/ WsSleepReturns
    \/ \E outcome \in WsConnectOutcomes : WsConnectReturns(outcome)
    \/ DisconnectWs

StreamSpec == StreamInit /\ [][StreamNext]_vars

\* The event loop runs the stream task whenever its sleep or its connect has
\* returned; when a venue closes a stream or a caller disconnects is up to them.
StreamFairSpec ==
    StreamSpec /\ WF_vars(WsSleepReturns)
               /\ WF_vars(\E outcome \in WsConnectOutcomes : WsConnectReturns(outcome))

\* The batch buffer, from construction on.
BatchInit ==
    /\ now = 0
    /\ StrategyInit
    /\ SimInit
    /\ LiveInit
    /\ sizing = NoSizing
    /\ detect = NoDetect
    /\ ws = NoStream
    /\ gui = GuiNew
    /\ bt = NoBacktest
    /\ universe = NoUniverse
    /\ cfgload = NoConfigLoad
    /\ conv = NoConversion
    /\ emit = NoEmit
    /\ sweep = NoSweep
    /\ fx = NoRate
    /\ premium = NoPremium
    /\ batch = NoBatch

BatchNext ==
    \/ \E exchange_name \in GuiExchanges, symbol \in GuiSymbols, raises \in BOOLEAN :
          AddToTickerBatch(exchange_name, symbol, raises)
    \/ GuiTick

BatchSpec == BatchInit /\ [][BatchNext]_vars

\* Runs of the backtester over one history.
UniverseInit ==
    /\ now = 0
    /\ StrategyInit
    /\ SimInit
    /\ LiveInit
    /\ sizing = NoSizing
    /\ detect = NoDetect
    /\ ws = NoStream
    /\ gui = NoGui
    /\ bt = NoBacktest
    /\ \E exchanges \in ExchangeLists, max_symbols \in MaxSymbolsValues,
          enabled_quote_currencies \in EnabledQuoteLists,
          responses \in [UniverseVenues -> VenueResponses] :
          /\ \A v \in UniverseVenues \ Range(exchanges) : responses[v] = NoResponse
          /\ universe = UniverseNew(exchanges, responses, max_symbols,
                                    enabled_quote_currencies)
    /\ cfgload = NoConfigLoad
    /\ conv = NoConversion
    /\ emit = NoEmit
    /\ sweep = NoSweep
    /\ fx = NoRate
    /\ premium = NoPremium
    /\ batch = NoBatch

UniverseNext ==
    \/ \E order \in SetOrders : StartDetects(order)
    \/ \E ok \in BOOLEAN : ConnectExchangeWs(ok)

UniverseSpec == UniverseInit /\ [][UniverseNext]_vars

ConfigInit ==
    /\ now = 0
    /\ StrategyInit
    /\ SimInit
    /\ LiveInit
    /\ sizing = NoSizing
    /\ detect = NoDetect
    /\ ws = NoStream
    /\ gui = NoGui
    /\ bt = NoBacktest
    /\ universe = NoUniverse
    /\ \E venue \in ConfigVenues, env \in Environments :
          \E file \in {EmptyDict} \cup [{venue} -> FileEntries] :
             cfgload = ConfigNew(venue, file, env)
    /\ conv = NoConversion
    /\ emit = NoEmit
    /\ sweep = NoSweep
    /\ fx = NoRate
    /\ premium = NoPremium
    /\ batch = NoBatch

ConfigNext ==
    \/ UpdateFromDict
    \/ LoadFromEnv

ConfigSpec == ConfigInit /\ [][ConfigNext]_vars

ConversionInit ==
    /\ now = 0
    /\ StrategyInit
    /\ SimInit
    /\ LiveInit
    /\ sizing = NoSizing
    /\ detect = NoDetect
    /\ ws = NoStream
    /\ gui = NoGui
    /\ bt = NoBacktest
    /\ universe = NoUniverse
    /\ cfgload = NoConfigLoad
    /\ conv \in { ConversionNew(venue, s) : venue \in ConversionVenues, s \in ConversionStrings }
    /\ emit = NoEmit
    /\ sweep = NoSweep
    /\ fx = NoRate
    /\ premium = NoPremium
    /\ batch = NoBatch

ConversionNext ==
    \/ ToWire
    \/ ToCanonical
    \/ ToWireAgain

ConversionSpec == ConversionInit /\ [][ConversionNext]_vars

\* The strategy with the adapters' emit path in front of it.
EmitInit ==
    /\ now = 0
    /\ StrategyInit
    /\ SimInit
    /\ LiveInit
    /\ sizing = NoSizing
    /\ detect = NoDetect
    /\ ws = NoStream
    /\ gui = NoGui
    /\ bt = NoBacktest
    /\ universe = NoUniverse
    /\ cfgload = NoConfigLoad
    /\ conv = NoConversion
    /\ emit = EmitNew
    /\ sweep = NoSweep
    /\ fx = NoRate
    /\ premium = NoPremium
    /\ batch = NoBatch

EmitNext ==
    \/ Start
    \/ Stop
    \/ \E v \in Exchanges, symbol \in Symbols :
          \E q \in TickerQuotes(v, symbol) : EmitTicker(v, symbol, q)
    \/ \E v \in Exchanges : InsertTickerReturns(v)
    \/ \E v \in Exchanges, raises \in BOOLEAN : InsertOpportunityReturns(v, raises)
    \/ \E d \in TickSteps : Tick(d)

EmitSpec == EmitInit /\ [][EmitNext]_vars

\* run_parameter_optimization on a new Backtester, over each history and grid.
SweepInit ==
    /\ now = 0
    /\ StrategyInit
    /\ SimInit
    /\ LiveInit
    /\ sizing = NoSizing
    /\ detect = NoDetect
    /\ ws = NoStream
    /\ gui = NoGui
    /\ bt = NoBacktest
    /\ universe = NoUniverse
    /\ cfgload = NoConfigLoad
    /\ conv = NoConversion
    /\ emit = NoEmit
    /\ sweep \in { SweepNew(history, name, values) :
                     history \in Histories, name \in SweepParameterNames,
                     values \in SweepValueLists }
    /\ fx = NoRate
    /\ premium = NoPremium
    /\ batch = NoBatch

SweepNext ==
    \/ RunParameterOptimization
    \/ TestParameters

SweepSpec == SweepInit /\ [][SweepNext]_vars

\* The Upbit adapter after construction, handling the tickers of KRW markets.
RateInit ==
    /\ now = 0
    /\ StrategyInit
    /\ SimInit
    /\ LiveInit
    /\ sizing = NoSizing
    /\ detect = NoDetect
    /\ ws = NoStream
    /\ gui = NoGui
    /\ bt = NoBacktest
    /\ universe = NoUniverse
    /\ cfgload = NoConfigLoad
    /\ conv = NoConversion
    /\ emit = NoEmit
    /\ sweep = NoSweep
    /\ fx = RateNew
    /\ premium = NoPremium
    /\ batch = NoBatch

RateNext ==
    \/ GetKrwToUsdRate
    \/ \E answer \in RateAnswers : RateRequestReturns(answer)
    \/ \E dt \in RateTickSteps : RateTick(dt)

RateSpec == RateInit /\ [][RateNext]_vars

\* The premium history under each configuration of premium_detection.
PremiumInit ==
    /\ now = 0
    /\ StrategyInit
    /\ SimInit
    /\ LiveInit
    /\ sizing = NoSizing
    /\ detect = NoDetect
    /\ ws = NoStream
    /\ gui = NoGui
    /\ bt = NoBacktest
    /\ universe = NoUniverse
    /\ cfgload = NoConfigLoad
    /\ conv = NoConversion
    /\ emit = NoEmit
    /\ sweep = NoSweep
    /\ fx = NoRate
    /\ premium \in { PremiumNew(enabled, lookback_periods, min_samples) :
                       enabled \in BOOLEAN,
                       lookback_periods \in LookbackPeriodsValues,
                       min_samples \in MinSamplesValues }
    /\ batch = NoBatch

PremiumNext ==
    \/ \E key \in PremiumKeys, spread_pct \in SpreadPcts :
          UpdateSpreadHistory(key, spread_pct)
    \/ \E key \in PremiumKeys, spread_pct \in SpreadPcts :
          GetAdjustedSpread(key, spread_pct)

PremiumSpec == PremiumInit /\ [][PremiumNext]_vars

\* The batch buffer fed by the stream tasks of two venues.
FlushInit ==
    /\ now = 0
    /\ StrategyInit
    /\ SimInit
    /\ LiveInit
    /\ sizing = NoSizing
    /\ detect = NoDetect
    /\ ws = NoStream
    /\ gui = NoGui
    /\ bt = NoBacktest
    /\ universe = NoUniverse
    /\ cfgload = NoConfigLoad
    /\ conv = NoConversion
    /\ emit = NoEmit
    /\ sweep = NoSweep
    /\ fx = NoRate
    /\ premium = NoPremium
    /\ batch = FlushNew

FlushNext ==
    \/ \E exchange_name \in GuiExchanges : AddToTickerBatchCall(exchange_name)
    \/ \E exchange_name \in GuiExchanges : FlushConnectReturns(exchange_name)
    \/ \E exchange_name \in GuiExchanges : FlushInsertReturns(exchange_name)
    \/ FlushTick

FlushSpec == FlushInit /\ [][FlushNext]_vars

BacktestInit ==
    /\ now = 0
    /\ StrategyInit
    /\ SimInit
    /\ LiveInit
    /\ sizing = NoSizing
    /\ detect = NoDetect
    /\ ws = NoStream
    /\ gui = NoGui
    /\ bt \in { BacktestNew(history, <<>>) : history \in Histories }
    /\ universe = NoUniverse
    /\ cfgload = NoConfigLoad
    /\ conv = NoConversion
    /\ emit = NoEmit
    /\ sweep = NoSweep
    /\ fx = NoRate
    /\ premium = NoPremium
    /\ batch = NoBatch

BacktestNext ==
    \/ RunBacktest
    \/ ProcessTimestamp
    \/ NextBacktest

BacktestSpec == BacktestInit /\ [][BacktestNext]_vars

(***************************************************************************)
(* Properties (C1-C4 under Spec, C5-C7 under SimSpec, C8-C10 under LiveSpec) *)
(***************************************************************************)

\* C1: any two signals delivered to the callbacks for the same
\* (symbol, buy_exchange, sell_exchange) are at least 60 seconds apart.
C1_CooldownBetweenSignals ==
    \A i, j \in 1..Len(emitted) :
        (i < j /\ CooldownKey(emitted[i].signal) = CooldownKey(emitted[j].signal))
            => emitted[j].at - emitted[i].at >= cooldown_seconds

\* C2: in any trailing 60-minute window at most max_trades_per_hour signals are
\* emitted: for every emitted signal, the signals emitted in the hour that ends with
\* it (itself included) number at most max_trades_per_hour.
C2_HourlyCap ==
    \A j \in 1..Len(emitted) :
        Cardinality({ i \in 1..j : emitted[j].at - emitted[i].at < hour_seconds })
            <= max_trades_per_hour

\* C3: every emitted signal has min_profit_threshold <= profit_percent <=
\* max_spread_threshold and buy_exchange # sell_exchange.
C3_EmittedInProfitRange ==
    \A i \in 1..Len(emitted) :
        LET s == emitted[i].signal
        IN  /\ ProfitPercentGE(s, min_profit_threshold)
            /\ ProfitPercentLE(s, max_spread_threshold)
            /\ s.buy_exchange # s.sell_exchange

\* C3 witness: a signal was emitted, and the detection that just ran (every call is
\* back at idle) paired quotes whose candidate lies above max_spread_threshold.
C3_Witness ==
    /\ is_running
    /\ Len(emitted) >= 1
    /\ \A v \in Exchanges : task[v].pc = "idle"
    /\ last_pairing.at = now
    /\ last_pairing.arrivals # {}
    /\ \E c \in Range(FindOpportunities(TRUE, exchange_data, exchange_order, "BTCUSDT", now)) :
          ~ProfitPercentLE(c, max_spread_threshold)

\* C4: every quote that enters pairing arrived at the engine no later than the
\* detection and at most max_spread_age_seconds before it.
C4_PairedQuotesArrivedRecently ==
    \A a \in last_pairing.arrivals :
        /\ a <= last_pairing.at
        /\ last_pairing.at - a <= max_spread_age_seconds

\* C5: in the simulator every (venue, asset) balance has free >= 0 and locked >= 0
\* in every reachable state.
C5_BalancesNonNegative ==
    \A ex \in SimExchanges, a \in SimAssets :
        /\ sim_balances[ex][a].free >= 0
        /\ sim_balances[ex][a].locked >= 0

\* C6: a simulator call with a rejected leg aborts for good: no order it created is
\* ever filled, and as long as every call so far was refused or aborted there is no
\* active trade and every balance has the value it had before the calls.
C6_RejectedLegAborts ==
    /\ \A o \in sim_aborted_orders : sim_orders[o].status = "new"
    /\ sim_stats.total_trades = 0 =>
          /\ DOMAIN sim_active_trades = {}
          /\ sim_balances = SimInitialBalances

\* C7: in both executors the number of active trades never exceeds
\* max_concurrent_trades.
C7_ActiveTradesBounded ==
    /\ Cardinality(DOMAIN sim_active_trades) <= max_concurrent_trades
    /\ Cardinality(lt_active_trades) <= max_concurrent_trades

\* C8: the status of a live trade only moves along PENDING -> {PARTIALLY_FILLED ->
\* COMPLETED, COMPLETED, FAILED, CANCELLED}, so a status COMPLETED, FAILED or
\* CANCELLED is never replaced by another one.
C8_TerminalStatusAbsorbing ==
    \A k \in DOMAIN lt_status_log :
        \A i \in 1..(Len(lt_status_log[k]) - 1) :
            LET from == lt_status_log[k][i].status
                to == lt_status_log[k][i + 1].status
            IN  /\ from \notin TerminalTradeStatuses
                /\ \/ from = "pending" /\ to \in {"partially_filled"} \cup TerminalTradeStatuses
                   \/ from = "partially_filled" /\ to = "completed"

\* C9: when the monitor handles the timeout of a trade whose legs are not both
\* terminal, a cancel request is sent for every leg that is NEW or PARTIALLY_FILLED,
\* the trade becomes CANCELLED, and by the end of the pass it has left active_trades.
C9_TimeoutCancelsPendingLegs ==
    \A k \in DOMAIN lt_timed_out :
        LET legs == lt_timed_out[k]
            terminal == {"filled", "canceled", "rejected"}
            pending == {"new", "partially_filled"}
            last == lt_status_log[k][Len(lt_status_log[k])]
        IN  ~(legs.buy_order \in terminal /\ legs.sell_order \in terminal) =>
               /\ legs.buy_order \in pending =>
                     \E r \in lt_cancel_requests : r.key = k /\ r.leg = "buy"
               /\ legs.sell_order \in pending =>
                     \E r \in lt_cancel_requests : r.key = k /\ r.leg = "sell"
               /\ last.status = "cancelled"
               /\ lt_mon.pc = "sleep" => k \notin lt_active_trades

\* C10: stop() of the live trader sends no cancel_order request and assigns no
\* trade's status.
C10_StopCancelsNothing ==
    /\ \A r \in lt_cancel_requests : r.by # "stop"
    /\ \A k \in DOMAIN lt_status_log :
          \A i \in 1..Len(lt_status_log[k]) : lt_status_log[k][i].by # "stop"

\* C11: a call whose sell placement failed after the buy order was placed has sent a
\* cancel request for the buy order, has returned False, has left no trade in
\* active_trades, and was not counted in total_trades.
C11_SellFailureAborts ==
    /\ \A k \in DOMAIN lt_calls :
          lt_calls[k] \in {"sell_failed", "sell_raised"} =>
             /\ [key |-> k, leg |-> "buy", by |-> "execute"] \in lt_cancel_requests
             /\ lt_calls[k] = "sell_failed"
             /\ k \notin lt_active_trades
    /\ lt_stats.total_trades = Cardinality({k \in DOMAIN lt_calls : lt_calls[k] = "done"})

\* C12: every trade that has left active_trades has a terminal status, and
\* update_trade_status was last called for it with that status.
C12_LeavesTerminalAndPersisted ==
    \A k \in DOMAIN lt_status_log :
        LET last == lt_status_log[k][Len(lt_status_log[k])]
        IN  k \notin lt_active_trades =>
               /\ last.status \in TerminalTradeStatuses
               /\ k \in DOMAIN lt_db_updates
               /\ lt_db_updates[k] = last.status
\* C13: for every completed trade of the simulator the recorded actual profit is
\* sell filled quantity * sell average price - buy filled quantity * buy average
\* price - the fees of both legs, and the trade record stored in the database holds
\* that profit.
C13_RealizedProfitRecorded ==
    \A i \in 1..Len(sim_completed_trades) :
        LET trade == sim_completed_trades[i]
            buy == sim_orders[trade.buy_order]
            sell == sim_orders[trade.sell_order]
            buy_cost == buy.filled_quantity * buy.average_price
            sell_proceeds == sell.filled_quantity * sell.average_price
        IN  /\ trade.actual_profit
                  = sell_proceeds - buy_cost - (SimFee(buy_cost) + SimFee(sell_proceeds))
            /\ trade.stored_profit = trade.actual_profit
\* C14: in the simulator, when every trade made so far had both legs filled (in full
\* or to 70%) and was completed and removed, and no call was aborted, nothing is
\* reserved any more: every locked balance is zero again.
C14_CompletedTradeReleasesLocked ==
    (/\ sim_aborted_orders = {}
     /\ DOMAIN sim_active_trades = {}
     /\ \A i \in 1..Len(sim_completed_trades) : sim_completed_trades[i].status = "completed")
        => \A ex \in SimExchanges, a \in SimAssets : sim_balances[ex][a].locked = 0
\* C15: no execute_arbitrage call of the live trader goes on to place orders while
\* the current drawdown is at or above max_drawdown_percent.
C15_DrawdownBreachHalts ==
    lt_entry_drawdown < max_drawdown_percent
\* C16: the quantity either executor computes is the minimum of trade_amount_usd /
\* buy_price, quote balance / buy_price, base balance, buy_size, sell_size and
\* max_position_size / buy_price, so its value at the buy price is at most
\* max_position_size.
C16_QuantityIsClampedMinimum ==
    LET price == sizing.signal.buy_price
        limit == sizing.max_position_size * MoneyScale
        quantity == Min(Min5((sizing.trade_amount_usd * MoneyScale) \div price,
                             sizing.buy_balance \div price, sizing.sell_balance,
                             sizing.signal.buy_size, sizing.signal.sell_size),
                        limit \div price)
    IN  /\ sizing.live # NotComputed =>
              sizing.live = quantity /\ sizing.live * price <= limit
        /\ sizing.sim # NotComputed =>
              sizing.sim = quantity /\ sizing.sim * price <= limit
\* C17: for the ordered pair (buy venue, sell venue) _calculate_arbitrage yields a
\* candidate exactly when net profit = (sell.bid - buy.ask) - (buy.ask * taker fee of
\* the buy venue + sell.bid * taker fee of the sell venue) - buy.ask *
\* slippage_tolerance is positive at a positive buy price, the taker fee of a venue
\* being the one its configuration gives; the candidate carries buy.ask, sell.bid and
\* that profit; identical quotes yield no candidate.
C17_CandidateMatchesFormula ==
    detect.done =>
        LET buy == detect.buy
            sell == detect.sell
            taker_fee(v) == IF v \in ConfigExchanges THEN detect.config_taker_fee
                            ELSE default_taker_fee
            net_profit == (sell.bid - buy.ask) * Scale
                             - (buy.ask * taker_fee(buy.exchange_name)
                                  + sell.bid * taker_fee(sell.exchange_name))
                             - buy.ask * detect.slippage_tolerance
            found == { i \in 1..Len(detect.opportunities) :
                          detect.opportunities[i].buy_exchange = buy.exchange_name }
        IN  /\ (found # {}) <=> (buy.ask > 0 /\ net_profit > 0)
            /\ \A i \in found : /\ detect.opportunities[i].buy_price = buy.ask
                                /\ detect.opportunities[i].sell_price = sell.bid
                                /\ detect.opportunities[i].profit = net_profit
            /\ (buy.bid = sell.bid /\ buy.ask = sell.ask) => detect.opportunities = <<>>

\* The scenario 'simple profitable pair': V1 quotes 60000/60010, V2 quotes
\* 60100/60110, taker fee 0.001 on both, slippage_tolerance 0.0005,
\* max_spread_threshold 0.02; detection has run.
SimpleProfitablePair ==
    /\ detect.done
    /\ detect.buy.exchange_name = "okx" /\ detect.sell.exchange_name = "upbit"
    /\ detect.buy.bid = 60000 /\ detect.buy.ask = 60010
    /\ detect.sell.bid = 60100 /\ detect.sell.ask = 60110
    /\ detect.slippage_tolerance = 5
    /\ detect.max_spread_threshold = 200

\* C18 as stated: in the scenario detection emits exactly the signal {buy V1 at
\* 60010, sell V2 at 60100} when min_profit_threshold is 0.0001, and none when it
\* is 0.0005.
C18_ScenarioAsStated ==
    SimpleProfitablePair =>
        IF detect.min_profit_threshold = 1
        THEN /\ Len(detect.handled) = 1
             /\ detect.handled[1].buy_exchange = "okx"
             /\ detect.handled[1].sell_exchange = "upbit"
             /\ detect.handled[1].buy_price = 60010
             /\ detect.handled[1].sell_price = 60100
        ELSE detect.handled = <<>>

\* C18: in the scenario the fees (120.11) exceed the gross profit (90), so detection
\* finds no opportunity and emits no signal, with min_profit_threshold 0.0001 as
\* with 0.0005.
C18_ScenarioEmitsNothing ==
    SimpleProfitablePair =>
        detect.opportunities = <<>> /\ detect.handled = <<>>

\* The scenario was run with min_profit_threshold = 0.0001.
C18_Witness ==
    SimpleProfitablePair /\ detect.min_profit_threshold = 1

\* C19: every emitted signal has a confidence between 0 and 1.
C19_ConfidenceInUnitRange ==
    \A i \in 1..Len(emitted) :
        /\ emitted[i].signal.confidence >= 0
        /\ emitted[i].signal.confidence <= Scale

\* C20: every insert of an Opportunity is for a candidate that is inside the profit
\* range, outside its cooldown and under the hourly cap when the insert begins (so
\* none is attempted for a dropped candidate); every emitted signal had exactly one
\* insert, begun before the signal was handed to the callbacks; and when an insert
\* returns or raises, its signal is emitted.
C20_InsertOnlyForHandledSignals ==
    /\ [](/\ Len(opportunity_inserts) =
                Len(emitted)
                  + Cardinality({v \in Exchanges : task[v].pc = "insert_opportunity"})
          /\ \A i \in 1..Len(emitted) :
                Cardinality({j \in 1..Len(opportunity_inserts) :
                                opportunity_inserts[j] = emitted[i].signal})
                  >= Cardinality({j \in 1..i : emitted[j].signal = emitted[i].signal})
          /\ \A j \in 1..Len(opportunity_inserts) :
                /\ ProfitPercentGE(opportunity_inserts[j], min_profit_threshold)
                /\ ProfitPercentLE(opportunity_inserts[j], max_spread_threshold)
          /\ insert_raised => Len(emitted) >= 1)
    /\ [][/\ Len(opportunity_inserts') > Len(opportunity_inserts) =>
               LET s == opportunity_inserts'[Len(opportunity_inserts')]
               IN  /\ Len(opportunity_inserts') = Len(opportunity_inserts) + 1
                   /\ ~InCooldown(trade_cooldown', s, now)
                   /\ ~HourlyCapReached(recent_signals', now)
           /\ \A v \in Exchanges :
                 (task[v].pc = "insert_opportunity"
                    /\ (task'[v] # task[v] \/ insert_raised' # insert_raised)) =>
                       emitted' = Append(emitted, [signal |-> task[v].cur[1], at |-> now])
          ]_vars

\* C20 witness: two signals were emitted, each after its one insert, an insert
\* raised, and the quotes now stored include one whose candidate lies above
\* max_spread_threshold, for which no insert was begun.
C20_Witness ==
    /\ insert_raised
    /\ Len(emitted) = 2
    /\ Len(opportunity_inserts) = 2
    /\ \A v \in Exchanges : task[v].pc = "idle"
    /\ last_pairing.at = now
    /\ \E c \in Range(FindOpportunities(TRUE, exchange_data, exchange_order, "BTCUSDT", now)) :
          ~ProfitPercentLE(c, max_spread_threshold)

\* C21: for every adapter, a stream that closed other than through disconnect_ws
\* is eventually followed by a reconnect attempt, and whenever the adapter reads
\* messages every symbol of its symbol set is subscribed on the connection.
C21_ClosedStreamReconnects ==
    /\ (ws.unattended ~> ~ws.unattended)
    /\ [](ws.pc = "listening" => ws.subscribed = Range(ws.symbols))

\* C22: the wait before the n-th consecutive reconnect attempt is
\* min(base_delay * 2^(n-1), max_delay); the retry counter is 0 after a successful
\* reconnect; once retry_count exceeds max_retries the stream is dead (connected
\* False, no attempt in progress, no message read).
C22_BackoffAndTermination ==
    /\ ws.pc = "connecting" => ws.waited = BackoffDelay(ws.retry_count)
    /\ ws.pc = "listening" => ws.retry_count = 0
    /\ ws.retry_count > max_retries => ~ws.connected /\ ws.pc \in {"ended", "disconnected"}

\* C23: the buffer never holds more than ticker_batch_size records, and a record
\* that was given to a bulk insert that failed is neither kept in the buffer nor
\* stored by a later bulk insert.
C23_BufferBounded ==
    /\ Len(gui.ticker_buffer) <= ticker_batch_size
    /\ Range(gui.ticker_buffer) \cap gui.failed = {}
    /\ gui.inserted \cap gui.failed = {}

\* C24: no record stays in the buffer for longer than ticker_batch_interval_seconds,
\* whether or not a further ticker arrives, unless a bulk insert failed; and the
\* buffer is below ticker_batch_size whenever no bulk insert failed.
C24_FlushedWithinInterval ==
    gui.failed = {} =>
        /\ \A i \in 1..Len(gui.ticker_buffer) :
              gui.time - gui.ticker_buffer[i].at <= ticker_batch_interval_seconds
        /\ Len(gui.ticker_buffer) < ticker_batch_size

C26_ReplayedInTimestampOrder ==
    (bt.pc = "done" /\ Len(bt.results) >= 1) =>
        /\ { <<r.key, r.timestamp>> : r \in Range(bt.replayed) }
             = UNION { { <<key, timestamp>> :
                           timestamp \in Range(bt.historical_data[key]) } :
                         key \in DOMAIN bt.historical_data }
        /\ \A i, j \in 1..Len(bt.replayed) :
              i < j => bt.replayed[i].timestamp <= bt.replayed[j].timestamp
        /\ \A i \in 1..Len(bt.replayed) : bt.replayed[i].at = bt.replayed[i].timestamp

\* C27: every symbol of the universe that start() computed, set as active and
\* subscribed to ends with one of config.arbitrage.enabled_quote_currencies.
C27_QuoteCurrencyEnabled ==
    universe.pc \in {"connecting", "running"} =>
        \A s \in Range(universe.dynamic_symbols) \cup Range(universe.active_symbols)
                   \cup UNION { Range(universe.subscribed[v]) : v \in UniverseVenues } :
            \E quote \in Range(universe.enabled_quote_currencies) : EndsWith(s, quote)

\* C28: with two or more exchanges the universe is part of every exchange's
\* listing less its deny-list, is sorted, and has at most min(max_symbols,
\* smallest limit of the exchanges) symbols.
C28_IntersectionSortedCapped ==
    (universe.pc \in {"connecting", "running"} /\ Len(universe.exchanges) >= 2) =>
        /\ \A s \in Range(universe.dynamic_symbols) :
              \A v \in Range(universe.exchanges) :
                  s \in Filter_symbols_for_exchange(universe.responses[v].symbols, v)
        /\ universe.dynamic_symbols = Sorted(Range(universe.dynamic_symbols))
        /\ Len(universe.dynamic_symbols) <= Min_limit(universe)

\* C29: once start() has connected the exchanges, every adapter that is
\* connected has subscribed to the symbols the strategy has as active_symbols.
C29_SubscribedEqualsActive ==
    universe.pc = "running" =>
        \A v \in Range(universe.exchanges) :
            universe.connected[v] =>
                Range(universe.subscribed[v]) = Range(universe.active_symbols)

\* C30: with <VENUE>_API_KEY and <VENUE>_API_SECRET in the environment of a
\* venue that the file configures, the loaded configuration has the key and
\* the secret of the environment and the file's testnet, enabled,
\* arbitrage_enabled, region and premium_baseline.
C30_EnvOverridesOnlyCredentials ==
    (/\ cfgload.pc = "loaded"
     /\ cfgload.venue \in DOMAIN cfgload.file
     /\ cfgload.env.API_KEY # None
     /\ cfgload.env.API_SECRET # None) =>
        LET loaded == cfgload.exchanges[cfgload.venue]
            file == cfgload.file[cfgload.venue]
        IN  /\ loaded.api_key = cfgload.env.API_KEY
            /\ loaded.api_secret = cfgload.env.API_SECRET
            /\ loaded.testnet = file.testnet
            /\ loaded.enabled = file.enabled
            /\ loaded.arbitrage_enabled = file.arbitrage_enabled
            /\ loaded.region = file.region
            /\ loaded.premium_baseline = file.premium_baseline

\* C31: for every adapter and every string, converting the string to the
\* venue's form, back to the canonical form and to the venue's form again
\* gives the venue's form of the first conversion.
C31_CanonicalRoundTrip ==
    conv.pc = "done" => conv.wire_again = conv.wire

\* C32: no call of _on_ticker_update raises, for a venue with an entry in
\* config.exchanges or without one, and every call for an active symbol leaves
\* the ticker's quote in the quote table.
C32_DetectionNeverRaises ==
    /\ ~emit.callback_raised
    /\ ~emit.not_stored

\* C33: in a finished sweep every run started with the simulator's balances at the
\* seed and its counters at zero, the run of every combination ended as a run of
\* run_backtest on a new Backtester over the same history ends, with the same result,
\* and config.arbitrage has its original parameter value.
C33_SweepRunsIndependent ==
    sweep.pc = "done" =>
        /\ \A i \in 1..Len(sweep.starts) :
              /\ sweep.starts[i].simulator.balances = SimInitialBalances
              /\ sweep.starts[i].simulator.completed_trades = <<>>
              /\ sweep.starts[i].simulator.total_trades = 0
              /\ sweep.starts[i].simulator.total_profit = 0
              /\ sweep.starts[i].simulator.total_fees = 0
              /\ sweep.starts[i].simulator.max_drawdown = 0
        /\ \A i \in 1..Len(sweep.results) :
              LET alone == Run_backtest(Backtester_new(sweep.backtester.historical_data))
              IN  /\ sweep.results[i].outcome = alone.outcome
                  /\ sweep.results[i].result = alone.result
        /\ sweep.min_profit_threshold = min_profit_threshold

\* C34: two requests for the KRW to USD rate are more than the refresh interval
\* apart, however the earlier one ended, and a call whose request failed returns
\* the rate that was held before it.
C34_RateRefreshedOncePerInterval ==
    /\ \A i, j \in 1..Len(fx.requests) :
          i < j => fx.requests[j].at - fx.requests[i].at > rate_refresh_seconds
    /\ (/\ fx.pc = "idle"
        /\ fx.requests # <<>>
        /\ fx.requests[Len(fx.requests)].ended \in {"empty", "raises"}
        /\ fx.current_time = fx.requests[Len(fx.requests)].at)
          => /\ fx.krw_per_usd = fx.held
             /\ fx.returned[Len(fx.returned)] = fx.held

\* C35: the premium history of every key is at most lookback_periods long and is
\* the most recent observations of the key in arrival order; get_adjusted_spread
\* returns its input while the key has fewer than min_samples observations or the
\* detection is disabled, and flags no outlier when the standard deviation is 0.
C35_PremiumHistoryBounded ==
    /\ \A key \in PremiumKeys :
          /\ Len(premium.spread_history[key]) <= premium.lookback_periods
          /\ premium.enabled =>
                premium.spread_history[key]
                   = SubSeq(premium.observed[key],
                            Len(premium.observed[key])
                               - Len(premium.spread_history[key]) + 1,
                            Len(premium.observed[key]))
          /\ premium.enabled =>
                Len(premium.spread_history[key])
                   = Min(Len(premium.observed[key]), premium.lookback_periods)
    /\ premium.last.key # "none" =>
          /\ (~premium.enabled \/ premium.last.samples < premium.min_samples)
                => /\ ~premium.last.adjusted.annotated
                   /\ premium.last.adjusted.spread_pct
                         = [num |-> premium.last.spread_pct, den |-> 1]
          /\ ~premium.last.adjusted.std_positive => ~premium.last.adjusted.is_outlier

\* C40: no record is written to the tickers table twice, and every record that was
\* appended to the buffer is in the buffer, in the rows of a bulk insert in flight,
\* or in the table.
C40_EveryRecordWrittenOnce ==
    /\ \A i, j \in 1..Len(batch.rows) : i # j => batch.rows[i] # batch.rows[j]
    /\ \A id \in 1..batch.records :
          \/ id \in Range(batch.ticker_buffer)
          \/ id \in Range(batch.rows)
          \/ \E exchange_name \in GuiExchanges :
                id \in Range(batch.call[exchange_name].data)

\* C36: every simulated trade is completed once: the trades counted in
\* successful_trades and failed_trades are the trades that were completed, and
\* total_profit is the sum of their actual_profit; no trade is in completed_trades
\* twice, and between two passes of the order-processing loop no completed trade
\* is left in active_trades.
C36_CompletedExactlyOnce ==
    LET left == { k \in DOMAIN sim_active_trades :
                     sim_active_trades[k].status = "completed" }
        profits == [i \in 1..Len(sim_completed_trades) |->
                       sim_completed_trades[i].actual_profit]
    IN  /\ sim_stats.successful_trades + sim_stats.failed_trades
              = Len(sim_completed_trades) + Cardinality(left)
        /\ sim_stats.total_profit
              = SeqSum(profits)
                  + SeqSum([i \in 1..Cardinality(left) |->
                               sim_active_trades[SortedSeq(left)[i]].actual_profit])
        /\ \A i, j \in 1..Len(sim_completed_trades) :
              i # j => sim_completed_trades[i].id # sim_completed_trades[j].id
        /\ sim_proc.pc \in {"sleep", "off"} => left = {}

C38_FailedCallCancelsAcceptedOrders ==
    [][\A key \in 1..MaxLiveTrades :
          LET buy_accepted ==
                  \/ lt_trades[key].buy_order # "none"
                  \/ \E status \in PlacedStatuses :
                        LivePlaceBuyReturns(key, "store_raises", status)
              sell_accepted ==
                  \/ lt_trades[key].sell_order # "none"
                  \/ \E status \in PlacedStatuses :
                        LivePlaceSellReturns(key, "store_raises", status)
          IN  (/\ key \in DOMAIN lt_calls
               /\ lt_calls[key] \in {"buy", "sell", "store"}
               /\ lt_calls'[key] \in {"buy_failed", "sell_failed", "store_failed"})
                 => /\ buy_accepted =>
                          [key |-> key, leg |-> "buy", by |-> "execute"]
                             \in lt_cancel_requests'
                    /\ sell_accepted =>
                          [key |-> key, leg |-> "sell", by |-> "execute"]
                             \in lt_cancel_requests'
      ]_vars

\* C39: while is_running is False no signal is handed to the callbacks and no
\* opportunity is given to insert_arbitrage_opportunity.
C39_StoppedStrategyIsSilent ==
    [][(\/ Len(emitted') > Len(emitted)
        \/ Len(opportunity_inserts') > Len(opportunity_inserts)) => is_running]_vars
====
